---- MODULE Spec2Model ----
(***************************************************************************)
(* SyncWatch session and synchronization engine.                           *)
(*                                                                         *)
(* The backend is a single Node.js process.  Every handler is an async     *)
(* function: the code between two awaits runs atomically, and every await  *)
(* of a store call (Redis get/setEx, one SQL statement) is a point where   *)
(* other handlers run.  A handler invocation is a task; one step of a task *)
(* is one store effect together with the local code that follows it.       *)
(***************************************************************************)
EXTENDS Integers, Sequences, FiniteSets, TLC

VARIABLES db, cache, tasks, done, nOps, now, socketData, rooms, inbox, client,
          connectedUsers, open

vars == <<db, cache, tasks, done, nOps, now, socketData, rooms, inbox, client,
          connectedUsers, open>>

storeVars == <<db, cache>>
hubVars == <<socketData, rooms, inbox, client, connectedUsers, open>>

(***************************************************************************)
(* Bounds and value sets                                                   *)
(***************************************************************************)
MaxOps == 3          \* operations started in one behaviour of Spec
MaxEvents == 2       \* video events started in one behaviour of SpecSync
MaxCreates == 2      \* createSession calls in one behaviour of SpecCreate
MaxLen == 3          \* length of a creator id passed to createSession
MaxHubOps == 2       \* socket events received in one behaviour of SpecHub
MaxEngineOps == 2    \* engine calls made in one behaviour of SpecEngine
MaxValidations == 1  \* validateVideoSync calls in one behaviour of SpecValidate
MaxRoomOps == 2      \* socket events received in one behaviour of SpecRoom
MaxRefreshOps == 3   \* socket events received in one behaviour of SpecRefresh
MaxSimpleOps == 3    \* requests and socket events in one behaviour of SpecSimple
MaxPresenceOps == 2  \* socket events received in one behaviour of SpecPresence

SessionIds == {"s1", "s2"}
Users == {"A", "B"}
Conns == {"c1", "c2", "c3"}
TaskIds == {1, 2}
NoConn == "none"
NoUser == ""
NoSid == ""
NoUrl == ""

(***************************************************************************)
(* Data model                                                              *)
(***************************************************************************)
\* a VideoState; typeofIsPlaying is the runtime type of the isPlaying value
NoState ==
  [present |-> FALSE, currentTime |-> 0, isPlaying |-> FALSE, duration |-> 0,
   url |-> NoUrl, lastUpdated |-> 0, typeofIsPlaying |-> "boolean"]

DefaultState ==
  [present |-> TRUE, currentTime |-> 0, isPlaying |-> FALSE, duration |-> 0,
   url |-> NoUrl, lastUpdated |-> 0, typeofIsPlaying |-> "boolean"]

NoRow ==
  [exists |-> FALSE, userId |-> NoUser, status |-> "NONE", participants |-> <<>>,
   videoUrl |-> NoUrl, videoState |-> NoState]

NewRow(userId, status, participants) ==
  [exists |-> TRUE, userId |-> userId, status |-> status,
   participants |-> participants, videoUrl |-> NoUrl, videoState |-> NoState]

NoEvent == [type |-> "NONE", currentTime |-> 0, url |-> NoUrl]

NoPatch ==
  [hasStatus |-> FALSE, status |-> "NONE", hasParticipants |-> FALSE,
   participants |-> <<>>, hasVideoUrl |-> FALSE, videoUrl |-> NoUrl,
   hasVideoState |-> FALSE, videoState |-> NoState]

IdleTask ==
  [id |-> 0, op |-> "none", pc |-> "idle", phase |-> 0, conn |-> NoConn,
   sid |-> NoSid, uid |-> NoUser, ev |-> NoEvent, ts |-> 0, loc |-> NoRow,
   patch |-> NoPatch, ns |-> NoState, t0 |-> 0, res |-> "none",
   st0 |-> "NONE", rejoin |-> FALSE, arg |-> <<>>, handler |-> "none",
   vs0 |-> NoState]

SeqToSet(s) == {s[i] : i \in 1..Len(s)}

RECURSIVE Filter(_, _)
Filter(s, x) ==
  IF s = <<>> THEN <<>>
  ELSE IF Head(s) = x THEN Filter(Tail(s), x)
       ELSE <<Head(s)>> \o Filter(Tail(s), x)

RECURSIVE Dedupe(_)
Dedupe(s) ==
  IF s = <<>> THEN <<>>
  ELSE LET init == Dedupe(SubSeq(s, 1, Len(s) - 1))
           last == s[Len(s)]
       IN IF last \in SeqToSet(init) THEN init ELSE Append(init, last)

NoDup(s) == \A i, j \in 1..Len(s) : i # j => s[i] # s[j]

(***************************************************************************)
(* SessionRepository: the SQL UPDATE of update() and the participant lists *)
(* computed by addParticipant / removeParticipant                          *)
(***************************************************************************)
\* a variant of update() that writes the default status when the patch has none
UpdateRow_DefaultStatus(row, patch) ==
  [row EXCEPT
     !.status = IF patch.hasStatus THEN patch.status ELSE "WAITING",
     !.participants = IF patch.hasParticipants THEN patch.participants ELSE @,
     !.videoUrl = IF patch.hasVideoUrl THEN patch.videoUrl ELSE @,
     !.videoState = IF patch.hasVideoState THEN patch.videoState ELSE @]

\* update(): only the fields present in the patch are set; the rest of the
\* row is left as it is
UpdateRow(row, patch) ==
  [row EXCEPT
     !.status = IF patch.hasStatus THEN patch.status ELSE @,
     !.participants = IF patch.hasParticipants THEN patch.participants ELSE @,
     !.videoUrl = IF patch.hasVideoUrl THEN patch.videoUrl ELSE @,
     !.videoState = IF patch.hasVideoState THEN patch.videoState ELSE @]

\* a variant of addParticipant without the Set
AddedParticipants_NoSet(participants, userId) == Append(participants, userId)

\* [...new Set([...session.participants, userId])]
AddedParticipants(participants, userId) == Dedupe(Append(participants, userId))

\* session.participants.filter(id => id !== userId)
RemovedParticipants(participants, userId) == Filter(participants, userId)

PatchStatus(st) == [NoPatch EXCEPT !.hasStatus = TRUE, !.status = st]

PatchParticipants(p) == [NoPatch EXCEPT !.hasParticipants = TRUE, !.participants = p]

PatchVideoState(vs) == [NoPatch EXCEPT !.hasVideoState = TRUE, !.videoState = vs]

(***************************************************************************)
(* SessionService: the decisions taken between the store calls             *)
(***************************************************************************)
\* a string argument is a sequence of characters
Whitespace == {" "}

RECURSIVE TrimStart(_)
TrimStart(s) ==
  IF s = <<>> THEN <<>>
  ELSE IF Head(s) \in Whitespace THEN TrimStart(Tail(s)) ELSE s

RECURSIVE TrimEnd(_)
TrimEnd(s) ==
  IF s = <<>> THEN <<>>
  ELSE IF s[Len(s)] \in Whitespace THEN TrimEnd(SubSeq(s, 1, Len(s) - 1)) ELSE s

\* a variant of createSession that stores the id as it was passed
Trim_None(s) == s

\* String.prototype.trim
Trim(s) == TrimEnd(TrimStart(s))

\* the string made of the characters of s
RECURSIVE Str(_)
Str(s) == IF s = <<>> THEN "" ELSE Head(s) \o Str(Tail(s))

\* createSession: !userId || userId.trim().length === 0
IsBlank(s) == s = <<>> \/ Len(Trim(s)) = 0

\* a variant of joinSession that activates on the participant count alone
JoinActivates_CountOnly(row) == Len(row.participants) > 1

\* joinSession: activate the session if it was waiting
JoinActivates(row) == row.status = "WAITING" /\ Len(row.participants) > 1

\* leaveSession: end the session if no participants are left
LeaveEnds(row) == Len(row.participants) = 0

\* setVideoUrl: the video URL together with status ACTIVE
SetVideoUrlPatch(url) ==
  [NoPatch EXCEPT !.hasVideoUrl = TRUE, !.videoUrl = url,
                  !.hasStatus = TRUE, !.status = "ACTIVE"]

\* a variant of endSession that also empties the participant list
EndSessionPatch_ClearsParticipants ==
  [PatchStatus("ENDED") EXCEPT !.hasParticipants = TRUE, !.participants = <<>>]

\* endSession
EndSessionPatch == PatchStatus("ENDED")

(***************************************************************************)
(* VideoSyncService                                                        *)
(***************************************************************************)
\* a variant of applyVideoEvent whose SEEK pauses playback
ApplyVideoEvent_SeekPauses(currentState, event, timestamp) ==
  LET baseState == IF currentState.present THEN currentState ELSE DefaultState
  IN IF event.type \in {"PAUSE", "SEEK"}
     THEN [baseState EXCEPT !.currentTime = event.currentTime,
                            !.isPlaying = FALSE, !.typeofIsPlaying = "boolean",
                            !.lastUpdated = timestamp]
     ELSE IF event.type = "PLAY"
     THEN [baseState EXCEPT !.currentTime = event.currentTime,
                            !.isPlaying = TRUE, !.typeofIsPlaying = "boolean",
                            !.lastUpdated = timestamp]
     ELSE IF event.type = "LOAD"
     THEN [baseState EXCEPT !.url = IF event.url # NoUrl THEN event.url ELSE @,
                            !.currentTime = 0, !.isPlaying = FALSE,
                            !.typeofIsPlaying = "boolean", !.lastUpdated = timestamp]
     ELSE IF event.type = "ENDED"
     THEN [baseState EXCEPT !.currentTime = baseState.duration,
                            !.isPlaying = FALSE, !.typeofIsPlaying = "boolean",
                            !.lastUpdated = timestamp]
     ELSE baseState

\* a variant of applyVideoEvent whose LOAD keeps the url of the prior state
ApplyVideoEvent_LoadKeepsUrl(currentState, event, timestamp) ==
  LET baseState == IF currentState.present THEN currentState ELSE DefaultState
  IN IF event.type \in {"PLAY", "PAUSE"}
     THEN [baseState EXCEPT !.currentTime = event.currentTime,
                            !.isPlaying = (event.type = "PLAY"),
                            !.typeofIsPlaying = "boolean", !.lastUpdated = timestamp]
     ELSE IF event.type = "SEEK"
     THEN [baseState EXCEPT !.currentTime = event.currentTime,
                            !.lastUpdated = timestamp]
     ELSE IF event.type = "LOAD"
     THEN [baseState EXCEPT !.currentTime = 0, !.isPlaying = FALSE,
                            !.typeofIsPlaying = "boolean", !.lastUpdated = timestamp]
     ELSE IF event.type = "ENDED"
     THEN [baseState EXCEPT !.currentTime = baseState.duration,
                            !.isPlaying = FALSE, !.typeofIsPlaying = "boolean",
                            !.lastUpdated = timestamp]
     ELSE baseState

ApplyVideoEvent(currentState, event, timestamp) ==
  LET baseState == IF currentState.present THEN currentState ELSE DefaultState
  IN CASE event.type = "PLAY" ->
            [baseState EXCEPT !.currentTime = event.currentTime,
                              !.isPlaying = TRUE, !.typeofIsPlaying = "boolean",
                              !.lastUpdated = timestamp]
       [] event.type = "PAUSE" ->
            [baseState EXCEPT !.currentTime = event.currentTime,
                              !.isPlaying = FALSE, !.typeofIsPlaying = "boolean",
                              !.lastUpdated = timestamp]
       [] event.type = "SEEK" ->
            [baseState EXCEPT !.currentTime = event.currentTime,
                              !.lastUpdated = timestamp]
       [] event.type = "LOAD" ->
            [baseState EXCEPT !.url = IF event.url # NoUrl THEN event.url ELSE @,
                              !.currentTime = 0, !.isPlaying = FALSE,
                              !.typeofIsPlaying = "boolean", !.lastUpdated = timestamp]
       [] event.type = "ENDED" ->
            [baseState EXCEPT !.currentTime = baseState.duration,
                              !.isPlaying = FALSE, !.typeofIsPlaying = "boolean",
                              !.lastUpdated = timestamp]
       [] OTHER -> baseState

\* a variant of isValidVideoState that checks lastUpdated only
IsValidVideoState_LastUpdatedOnly(videoState) == videoState.lastUpdated > 0

\* a variant of isValidVideoState without the check of currentTime against
\* duration
IsValidVideoState_NoDurationCheck(videoState) ==
  /\ videoState.currentTime >= 0
  /\ videoState.typeofIsPlaying = "boolean"
  /\ videoState.duration >= 0
  /\ videoState.lastUpdated > 0

IsValidVideoState(videoState) ==
  /\ videoState.currentTime >= 0
  /\ videoState.typeofIsPlaying = "boolean"
  /\ videoState.duration >= 0
  /\ videoState.lastUpdated > 0
  /\ ~(videoState.duration > 0 /\ videoState.currentTime > videoState.duration)

\* Math.abs(a - b)
AbsDiff(a, b) == IF a >= b THEN a - b ELSE b - a

\* a variant of validateVideoSync that also rejects a time drift over
\* MAX_TIME_DRIFT_MS / 1000 seconds
ValidateVideoSync_DriftRejected(currentState, newState) ==
  /\ currentState.url = newState.url
  /\ AbsDiff(newState.currentTime, currentState.currentTime) <= 5
  /\ ~(/\ currentState.duration > 0 /\ newState.duration > 0
        /\ AbsDiff(newState.duration, currentState.duration) > 5)

\* validateVideoSync: the url must match and two known durations must be
\* within 5 seconds; the time drift is logged only
ValidateVideoSync(currentState, newState) ==
  IF currentState.url # newState.url THEN FALSE
  ELSE IF currentState.duration > 0 /\ newState.duration > 0
          /\ AbsDiff(newState.duration, currentState.duration) > 5
       THEN FALSE
       ELSE TRUE

\* a variant of syncVideoState that checks the state before the session
SyncRejection_ShapeFirst(row, videoState) ==
  IF ~IsValidVideoState(videoState) THEN "VALIDATION_ERROR"
  ELSE IF row.status # "ACTIVE" THEN "SYNC_FAILED"
  ELSE "ok"

\* syncVideoState: the checks made on the session read and on the state
SyncRejection(row, videoState) ==
  IF row.status # "ACTIVE" THEN "SYNC_FAILED"
  ELSE IF ~IsValidVideoState(videoState) THEN "VALIDATION_ERROR"
  ELSE "ok"

\* the event types applyVideoEvent has a case for
EventTypes == {"PLAY", "PAUSE", "SEEK", "LOAD", "ENDED"}

\* the calls of the engine that persist a VideoState through syncVideoState
EngineOps == {"video", "sync", "resolve"}

\* a variant of the reduce with the comparison the other way round
RECURSIVE MostRecent_Oldest(_, _)
MostRecent_Oldest(latest, states) ==
  IF states = <<>> THEN latest
  ELSE MostRecent_Oldest(IF Head(states).lastUpdated < latest.lastUpdated
                         THEN Head(states) ELSE latest,
                         Tail(states))

\* resolveConflict: conflictingStates.reduce((latest, current) =>
\*   current.lastUpdated > latest.lastUpdated ? current : latest)
RECURSIVE MostRecent(_, _)
MostRecent(latest, states) ==
  IF states = <<>> THEN latest
  ELSE MostRecent(IF Head(states).lastUpdated > latest.lastUpdated
                  THEN Head(states) ELSE latest,
                  Tail(states))

(***************************************************************************)
(* Continuations: what a handler does with the result of a store call      *)
(***************************************************************************)
Returning(task, res) == [task EXCEPT !.pc = "ret", !.res = res]

\* after findById returned row (NoRow when findById returned null)
AfterFind(task, row, clock) ==
  LET t == [task EXCEPT !.loc = row]
  IN CASE task.op = "join" /\ task.phase = 1 ->
            \* SessionService.joinSession: check if session exists
            IF row.exists THEN [t EXCEPT !.pc = "fb_get", !.phase = 2]
            ELSE Returning(t, "SESSION_NOT_FOUND")
       [] task.op = "join" /\ task.phase = 2 ->
            \* SessionRepository.addParticipant
            IF row.exists
            THEN [t EXCEPT !.pc = "upd",
                    !.patch = PatchParticipants(AddedParticipants(row.participants, task.uid))]
            ELSE Returning(t, "SESSION_NOT_FOUND")
       [] task.op = "leave" ->
            \* SessionRepository.removeParticipant
            IF row.exists
            THEN [t EXCEPT !.pc = "upd",
                    !.patch = PatchParticipants(RemovedParticipants(row.participants, task.uid))]
            ELSE Returning(t, "SESSION_NOT_FOUND")
       [] task.op = "get" ->
            IF row.exists THEN Returning(t, "ok")
            ELSE Returning(t, "SESSION_NOT_FOUND")
       [] task.op = "video" /\ task.phase = 1 ->
            \* VideoSyncService.handleVideoEvent: getSession, applyVideoEvent
            IF row.exists
            THEN [t EXCEPT !.pc = "fb_get", !.phase = 2,
                    !.ns = ApplyVideoEvent(row.videoState, task.ev, task.ts)]
            ELSE Returning(t, "SESSION_NOT_FOUND")
       [] (task.op = "video" /\ task.phase = 2) \/ task.op \in {"sync", "resolve"} ->
            \* VideoSyncService.syncVideoState: getSession, checks, updateVideoState
            IF ~row.exists THEN Returning(t, "SESSION_NOT_FOUND")
            ELSE IF SyncRejection(row, task.ns) # "ok"
            THEN Returning(t, SyncRejection(row, task.ns))
            ELSE [t EXCEPT !.pc = "upd", !.t0 = clock, !.patch = PatchVideoState(task.ns)]
       [] OTHER -> Returning(t, "INTERNAL_ERROR")

\* after update() wrote the row it returned to the cache
AfterUpdate(task) ==
  CASE task.op = "join" /\ task.phase = 2 ->
         IF JoinActivates(task.loc)
         THEN [task EXCEPT !.pc = "upd", !.phase = 3, !.patch = PatchStatus("ACTIVE")]
         ELSE Returning(task, "ok")
    [] task.op = "leave" /\ task.phase = 1 ->
         IF LeaveEnds(task.loc)
         THEN [task EXCEPT !.pc = "upd", !.phase = 2, !.patch = PatchStatus("ENDED")]
         ELSE Returning(task, "ok")
    [] OTHER -> Returning(task, "ok")

\* update() found no row: SessionNotFoundError, which syncVideoState turns
\* into SyncFailedError
AfterUpdateMissing(task) ==
  IF task.op \in EngineOps THEN Returning(task, "SYNC_FAILED")
  ELSE Returning(task, "SESSION_NOT_FOUND")

(***************************************************************************)
(* Initial state: empty store, no handler running, connections open        *)
(***************************************************************************)
NoSocketData == [sessionId |-> NoSid, userId |-> NoUser]

NoView == [currentTime |-> 0, isPlaying |-> FALSE]

Init ==
  /\ db = [s \in SessionIds |-> NoRow]
  /\ cache = [s \in SessionIds |-> NoRow]
  /\ tasks = [t \in TaskIds |-> IdleTask]
  /\ done = {}
  /\ nOps = 0
  /\ now = 1
  /\ socketData = [c \in Conns |-> NoSocketData]
  /\ rooms = [c \in Conns |-> {}]
  /\ inbox = [c \in Conns |-> <<>>]
  /\ client = [c \in Conns |-> NoView]
  /\ connectedUsers = [s \in SessionIds |-> {}]
  /\ open = Conns

(***************************************************************************)
(* Starting a handler: the request reaches the process and the handler     *)
(* runs up to its first await.  Handlers take the lowest free task slot.   *)
(***************************************************************************)
FreeSlot(t) ==
  /\ tasks[t].pc = "idle"
  /\ \A u \in TaskIds : u < t => tasks[u].pc # "idle"

\* no handler is in progress
Quiet == \A t \in TaskIds : tasks[t].pc = "idle"

\* calls that have returned (done records the calls in the order of their ids)
JoinedOk(s, p) == \E d \in done : d.op = "join" /\ d.sid = s /\ d.uid = p /\ d.res = "ok"

LeftOk(s, p) == \E d \in done : d.op = "leave" /\ d.sid = s /\ d.uid = p /\ d.res = "ok"

Called(op, s, p) == \E d \in done : d.op = op /\ d.sid = s /\ d.uid = p

\* st0, vs0 and rejoin record what held when the call was made: the status
\* and the videoState of the durable record, and whether a joinSession of the
\* same participant had already succeeded
NewTask(op, pc, sid, uid) ==
  [IdleTask EXCEPT !.id = nOps + 1, !.op = op, !.pc = pc, !.phase = 1,
                   !.sid = sid, !.uid = uid, !.st0 = db[sid].status,
                   !.vs0 = db[sid].videoState,
                   !.rejoin = (op = "join" /\ JoinedOk(sid, uid))]

Launch(t, task) ==
  /\ FreeSlot(t)
  /\ tasks' = [tasks EXCEPT ![t] = task]
  /\ nOps' = nOps + 1

\* the session ids createSession may draw (uuidv4: an id not in use)
FreshIds(sids) ==
  {s \in sids : ~db[s].exists /\ \A t \in TaskIds : tasks[t].sid # s \/ tasks[t].op # "create"}

\* SessionService.createSession -> SessionRepository.create
StartCreate(t, sids, userId) ==
  /\ \E sid \in FreshIds(sids) :
       Launch(t, [NewTask("create", "ins", sid, userId) EXCEPT
                    !.loc = NewRow(userId, "WAITING", <<userId>>)])
  /\ UNCHANGED <<db, cache, done, now, hubVars>>

\* SessionService.createSession called with the id as the caller passed it:
\* the validation, then SessionRepository.create with the trimmed id
CreateSession(t, sids, userId) ==
  IF IsBlank(userId)
  THEN /\ done' = done \cup
                  {[id |-> nOps + 1, op |-> "create", sid |-> NoSid, uid |-> NoUser,
                    ev |-> NoEvent, res |-> "VALIDATION_ERROR", arg |-> userId,
                    conn |-> NoConn, handler |-> "none", joined |-> {}, ts |-> 0]}
       /\ nOps' = nOps + 1
       /\ UNCHANGED <<db, cache, tasks, now, hubVars>>
  ELSE /\ \E sid \in FreshIds(sids) :
            Launch(t, [NewTask("create", "ins", sid, Str(Trim(userId))) EXCEPT
                         !.arg = userId,
                         !.loc = NewRow(Str(Trim(userId)), "WAITING", <<Str(Trim(userId))>>)])
       /\ UNCHANGED <<db, cache, done, now, hubVars>>

\* SessionService.joinSession
StartJoin(t, sid, userId) ==
  /\ Launch(t, NewTask("join", "fb_get", sid, userId))
  /\ UNCHANGED <<db, cache, done, now, hubVars>>

\* SessionService.leaveSession
StartLeave(t, sid, userId) ==
  /\ Launch(t, NewTask("leave", "fb_get", sid, userId))
  /\ UNCHANGED <<db, cache, done, now, hubVars>>

\* SessionService.setVideoUrl
StartSetVideoUrl(t, sid, url) ==
  /\ Launch(t, [NewTask("setUrl", "upd", sid, NoUser) EXCEPT !.patch = SetVideoUrlPatch(url)])
  /\ UNCHANGED <<db, cache, done, now, hubVars>>

\* SessionService.endSession
StartEnd(t, sid) ==
  /\ Launch(t, [NewTask("end", "upd", sid, NoUser) EXCEPT !.patch = EndSessionPatch])
  /\ UNCHANGED <<db, cache, done, now, hubVars>>

\* VideoSyncService.handleVideoEvent called with an event stamped by the caller
StartEngineEvent(t, sid, userId, event, adv) ==
  /\ Launch(t, [NewTask("video", "fb_get", sid, userId) EXCEPT !.ev = event, !.ts = now + adv])
  /\ now' = now + adv
  /\ UNCHANGED <<db, cache, done, hubVars>>

\* a call that fails its input validation before any store call
Refused(op, sid, input) ==
  [id |-> nOps + 1, op |-> op, sid |-> sid, uid |-> NoUser, ev |-> NoEvent,
   res |-> "VALIDATION_ERROR", arg |-> input, conn |-> NoConn, handler |-> "none",
   joined |-> {}, ts |-> 0]

Refuse(record) ==
  /\ done' = done \cup {record}
  /\ nOps' = nOps + 1
  /\ UNCHANGED <<db, cache, tasks, now, hubVars>>

\* VideoSyncService.handleVideoEvent called with an event and its timestamp
HandleVideoEvent(t, sid, event, userId, timestamp) ==
  IF sid = NoSid \/ event = NoEvent \/ userId = NoUser
  THEN Refuse(Refused("video", sid, <<>>))
  ELSE /\ Launch(t, [NewTask("video", "fb_get", sid, userId) EXCEPT
                       !.ev = event, !.ts = timestamp])
       /\ UNCHANGED <<db, cache, done, now, hubVars>>

\* VideoSyncService.syncVideoState called directly; a missing videoState is
\* NoState
SyncVideoState(t, sid, videoState) ==
  IF sid = NoSid \/ ~videoState.present
  THEN Refuse(Refused("sync", sid, <<videoState>>))
  ELSE /\ Launch(t, [NewTask("sync", "fb_get", sid, NoUser) EXCEPT
                       !.ns = videoState, !.arg = <<videoState>>])
       /\ UNCHANGED <<db, cache, done, now, hubVars>>

\* VideoSyncService.resolveConflict: the most recent state goes to
\* syncVideoState
ResolveConflict(t, sid, conflictingStates) ==
  IF conflictingStates = <<>> \/ sid = NoSid
  THEN Refuse(Refused("resolve", sid, conflictingStates))
  ELSE /\ Launch(t, [NewTask("resolve", "fb_get", sid, NoUser) EXCEPT
                       !.ns = MostRecent(Head(conflictingStates), Tail(conflictingStates)),
                       !.arg = conflictingStates])
       /\ UNCHANGED <<db, cache, done, now, hubVars>>

\* VideoSyncService.validateVideoSync: a synchronous call; its result is
\* recorded
ValidateCall(currentState, newState) ==
  /\ done' = done \cup
       {[Refused("validate", NoSid, <<currentState, newState>>) EXCEPT
           !.res = IF ValidateVideoSync(currentState, newState) THEN "true" ELSE "false"]}
  /\ nOps' = nOps + 1
  /\ UNCHANGED <<db, cache, tasks, now, hubVars>>

(***************************************************************************)
(* Store steps                                                             *)
(***************************************************************************)
\* findById: getCache
FbGet(t) ==
  /\ tasks[t].pc = "fb_get"
  /\ LET task == tasks[t]
     IN tasks' = [tasks EXCEPT ![t] =
                    IF cache[task.sid].exists THEN AfterFind(task, cache[task.sid], now)
                    ELSE [task EXCEPT !.pc = "fb_db"]]
  /\ UNCHANGED <<db, cache, done, nOps, now, hubVars>>

\* findById: SELECT
FbDb(t) ==
  /\ tasks[t].pc = "fb_db"
  /\ LET task == tasks[t]
     IN tasks' = [tasks EXCEPT ![t] =
                    IF db[task.sid].exists
                    THEN [task EXCEPT !.pc = "fb_set", !.loc = db[task.sid]]
                    ELSE AfterFind(task, NoRow, now)]
  /\ UNCHANGED <<db, cache, done, nOps, now, hubVars>>

\* findById: setCache of the row read
FbSet(t) ==
  /\ tasks[t].pc = "fb_set"
  /\ LET task == tasks[t]
     IN /\ cache' = [cache EXCEPT ![task.sid] = task.loc]
        /\ tasks' = [tasks EXCEPT ![t] = AfterFind(task, task.loc, now)]
  /\ UNCHANGED <<db, done, nOps, now, hubVars>>

\* create: INSERT ... RETURNING
Insert(t) ==
  /\ tasks[t].pc = "ins"
  /\ LET task == tasks[t]
     IN /\ db' = [db EXCEPT ![task.sid] = task.loc]
        /\ tasks' = [tasks EXCEPT ![t] = [task EXCEPT !.pc = "updc"]]
  /\ UNCHANGED <<cache, done, nOps, now, hubVars>>

\* update: UPDATE ... RETURNING; updateVideoState stamps lastUpdated with
\* Date.now() read between the previous store call and this one
Upd(t) ==
  /\ tasks[t].pc = "upd"
  /\ LET task == tasks[t]
     IN IF ~db[task.sid].exists
        THEN /\ tasks' = [tasks EXCEPT ![t] = AfterUpdateMissing(task)]
             /\ db' = db
        ELSE \E st \in (IF task.op \in EngineOps THEN task.t0..now ELSE {0}) :
               LET patch == IF task.op \in EngineOps
                            THEN PatchVideoState([task.ns EXCEPT !.lastUpdated = st])
                            ELSE task.patch
                   row == UpdateRow(db[task.sid], patch)
               IN /\ db' = [db EXCEPT ![task.sid] = row]
                  /\ tasks' = [tasks EXCEPT ![t] = [task EXCEPT !.pc = "updc", !.loc = row]]
  /\ UNCHANGED <<cache, done, nOps, now, hubVars>>

\* create / update: setCache of the row returned
UpdC(t) ==
  /\ tasks[t].pc = "updc"
  /\ LET task == tasks[t]
     IN /\ cache' = [cache EXCEPT ![task.sid] = task.loc]
        /\ tasks' = [tasks EXCEPT ![t] = AfterUpdate(task)]
  /\ UNCHANGED <<db, done, nOps, now, hubVars>>

\* executeQuery: the statement fails and the repository returns a
\* DatabaseError, which syncVideoState turns into SyncFailedError when the
\* statement was its update
DbFail(t) ==
  /\ tasks[t].pc \in {"fb_db", "upd"}
  /\ LET task == tasks[t]
     IN tasks' = [tasks EXCEPT ![t] =
                    Returning(task, IF task.op \in EngineOps /\ task.pc = "upd"
                                    THEN "SYNC_FAILED" ELSE "DATABASE_ERROR")]
  /\ UNCHANGED <<db, cache, done, nOps, now, hubVars>>

\* the cache entry expires (setEx with a ttl)
CacheExpire(s) ==
  /\ cache[s].exists
  /\ cache' = [cache EXCEPT ![s] = NoRow]
  /\ UNCHANGED <<db, tasks, done, nOps, now, hubVars>>

(***************************************************************************)
(* Connection hub: WebSocketManager.handleVideoEvent and the web client    *)
(***************************************************************************)
Msg(ev, type, currentTime) == [ev |-> ev, type |-> type, currentTime |-> currentTime]

\* socket.emit
EmitTo(box, c, msg) == [box EXCEPT ![c] = Append(@, msg)]

\* a variant that emits to the whole room (io.to(sessionId).emit)
RoomExcept_WholeRoom(sid, sender) == {c \in Conns : sid \in rooms[c]}

\* socket.to(sessionId).emit: every socket in the room except the sender
RoomExcept(sid, sender) == {c \in Conns : sid \in rooms[c] /\ c # sender}

Broadcast(box, recipients, msg) ==
  [c \in Conns |-> IF c \in recipients THEN Append(box[c], msg) ELSE box[c]]

\* VideoPlayer.handlePlay / handlePause / handleSeek: the sender's own state
LocalView(view, event) ==
  CASE event.type = "PLAY" -> [currentTime |-> event.currentTime, isPlaying |-> TRUE]
    [] event.type = "PAUSE" -> [currentTime |-> event.currentTime, isPlaying |-> FALSE]
    [] event.type = "SEEK" -> [view EXCEPT !.currentTime = event.currentTime]
    [] OTHER -> view

\* VideoPlayer.syncWithRemote: the state a client takes from a video-sync
RemoteView(view, msg) ==
  [currentTime |-> msg.currentTime, isPlaying |-> (msg.type = "PLAY")]

\* a client acts on its player and the video-event reaches the hub;
\* handleVideoEvent runs up to its first await
StartHubVideo(t, c, event, adv) ==
  /\ now' = now + adv
  /\ client' = [client EXCEPT ![c] = LocalView(@, event)]
  /\ IF socketData[c].sessionId = NoSid \/ socketData[c].userId = NoUser
     THEN /\ inbox' = EmitTo(inbox, c, Msg("session-error", "NOT_IN_SESSION", 0))
          /\ done' = done \cup
                      {[id |-> nOps + 1, op |-> "none", sid |-> NoSid, uid |-> NoUser,
                        ev |-> event, res |-> "NOT_IN_SESSION", arg |-> <<>>, conn |-> c,
                        handler |-> "video-event", joined |-> {}, ts |-> 0]}
          /\ nOps' = nOps + 1
          /\ UNCHANGED tasks
     ELSE /\ Launch(t, [NewTask("video", "fb_get", socketData[c].sessionId, socketData[c].userId)
                          EXCEPT !.conn = c, !.handler = "video-event",
                                 !.ev = event, !.ts = now + adv])
          /\ UNCHANGED <<inbox, done>>
  /\ UNCHANGED <<db, cache, socketData, rooms, connectedUsers, open>>

DoneRecord(task) ==
  [id |-> task.id, op |-> task.op, sid |-> task.sid, uid |-> task.uid,
   ev |-> task.ev, res |-> task.res, arg |-> task.arg, conn |-> task.conn,
   handler |-> task.handler, joined |-> {}, ts |-> task.ts]

\* the session data sent with session-joined, user-joined and user-left
SessionMsg(ev, sid, uid, row) ==
  [ev |-> ev, type |-> "", currentTime |-> 0, sessionId |-> sid, userId |-> uid,
   status |-> row.status, participants |-> row.participants, videoUrl |-> row.videoUrl]

\* the video-sync sent to a joining socket: the stored VideoState
StateMsg(sid, videoState) ==
  [ev |-> "video-sync", type |-> "", currentTime |-> 0, sessionId |-> sid,
   videoState |-> videoState]

\* the video-url-updated message
UrlUpdatedMsg(sid, videoUrl, userId, row) ==
  [ev |-> "video-url-updated", type |-> "", currentTime |-> 0, sessionId |-> sid,
   url |-> videoUrl, userId |-> userId, status |-> row.status,
   participants |-> row.participants, videoUrl |-> row.videoUrl]

\* the video-sync broadcast after a video event: {...eventData, timestamp},
\* the fields of the message the client sent and a timestamp
SyncMsg(eventData) ==
  [ev |-> "video-sync", type |-> eventData.type, currentTime |-> eventData.currentTime,
   fields |-> (DOMAIN eventData) \cup {"timestamp"}]

\* a packet for a socket that has disconnected is dropped
Send(box, c, msg) == IF c \in open THEN EmitTo(box, c, msg) ELSE box

\* io.to(sessionId).emit: every socket in the room
Room(sid) == {c \in Conns : sid \in rooms[c]}

\* a variant of handleJoinSession that does not send the stored VideoState
JoinSessionDone_WithoutVideoState(task) ==
  LET c == task.conn
      sid == task.sid
  IN IF task.res # "ok"
     THEN /\ inbox' = Send(inbox, c, Msg("session-error", task.res, 0))
          /\ UNCHANGED <<rooms, socketData, connectedUsers>>
     ELSE /\ rooms' = [rooms EXCEPT ![c] = @ \cup {sid}]
          /\ socketData' = [socketData EXCEPT ![c] = [sessionId |-> sid, userId |-> task.uid]]
          /\ connectedUsers' = [connectedUsers EXCEPT ![sid] = @ \cup {c}]
          /\ inbox' = Broadcast(Send(inbox, c, SessionMsg("session-joined", sid, NoUser, task.loc)),
                                RoomExcept(sid, c) \cap open,
                                SessionMsg("user-joined", sid, task.uid, task.loc))

\* a variant of handleJoinSession that records the room before it looks at
\* the result of joinSession
JoinSessionDone_AssignsFirst(task) ==
  LET c == task.conn
      sid == task.sid
  IN /\ rooms' = [rooms EXCEPT ![c] = @ \cup {sid}]
     /\ socketData' = [socketData EXCEPT ![c] = [sessionId |-> sid, userId |-> task.uid]]
     /\ connectedUsers' = [connectedUsers EXCEPT ![sid] = @ \cup {c}]
     /\ inbox' = IF task.res # "ok"
                 THEN Send(inbox, c, Msg("session-error", task.res, 0))
                 ELSE Send(inbox, c, SessionMsg("session-joined", sid, NoUser, task.loc))

\* handleJoinSession after joinSession returned
JoinSessionDone(task) ==
  LET c == task.conn
      sid == task.sid
  IN IF task.res # "ok"
     THEN /\ inbox' = Send(inbox, c, Msg("session-error", task.res, 0))
          /\ UNCHANGED <<rooms, socketData, connectedUsers>>
     ELSE /\ rooms' = [rooms EXCEPT ![c] = @ \cup {sid}]
          /\ socketData' = [socketData EXCEPT ![c] = [sessionId |-> sid, userId |-> task.uid]]
          /\ connectedUsers' = [connectedUsers EXCEPT ![sid] = @ \cup {c}]
          /\ LET joined == Send(inbox, c, SessionMsg("session-joined", sid, NoUser, task.loc))
                  told == Broadcast(joined, RoomExcept(sid, c) \cap open,
                                    SessionMsg("user-joined", sid, task.uid, task.loc))
             IN inbox' = IF task.loc.videoState.present
                         THEN Send(told, c, StateMsg(sid, task.loc.videoState))
                         ELSE told

\* handleLeaveSession after leaveSession returned
LeaveSessionDone(task) ==
  LET c == task.conn
      sid == task.sid
  IN IF task.res # "ok"
     THEN /\ inbox' = Send(inbox, c, Msg("session-error", task.res, 0))
          /\ UNCHANGED <<rooms, socketData, connectedUsers>>
     ELSE /\ rooms' = [rooms EXCEPT ![c] = @ \ {sid}]
          /\ socketData' = [socketData EXCEPT ![c] = NoSocketData]
          /\ connectedUsers' = [connectedUsers EXCEPT ![sid] = @ \ {c}]
          /\ inbox' = Broadcast(inbox, RoomExcept(sid, c) \cap open,
                                SessionMsg("user-left", sid, task.uid, task.loc))

\* a variant of handleUserDisconnection that notifies nobody
DisconnectionDone_Silent(task) ==
  IF task.res # "ok"
  THEN UNCHANGED <<inbox, rooms, socketData, connectedUsers>>
  ELSE /\ connectedUsers' = [connectedUsers EXCEPT ![task.sid] = @ \ {task.conn}]
       /\ UNCHANGED <<inbox, rooms, socketData>>

\* handleUserDisconnection after leaveSession returned
DisconnectionDone(task) ==
  IF task.res # "ok"
  THEN UNCHANGED <<inbox, rooms, socketData, connectedUsers>>
  ELSE /\ connectedUsers' = [connectedUsers EXCEPT ![task.sid] = @ \ {task.conn}]
       /\ inbox' = Broadcast(inbox, Room(task.sid) \cap open,
                             SessionMsg("user-left", task.sid, task.uid, task.loc))
       /\ UNCHANGED <<rooms, socketData>>

\* handleVideoEvent after the engine returned
VideoEventDone(task) ==
  /\ inbox' =
       IF task.res # "ok"
       THEN Send(inbox, task.conn, Msg("session-error", task.res, 0))
       ELSE Broadcast(inbox, RoomExcept(task.sid, task.conn) \cap open, SyncMsg(task.ev))
  /\ UNCHANGED <<rooms, socketData, connectedUsers>>

\* handleVideoUrlUpdate after setVideoUrl returned
VideoUrlUpdateDone(task) ==
  /\ inbox' =
       IF task.res # "ok"
       THEN Send(inbox, task.conn, Msg("session-error", task.res, 0))
       ELSE Broadcast(inbox, Room(task.sid) \cap open,
                      UrlUpdatedMsg(task.sid, task.patch.videoUrl, task.uid, task.loc))
  /\ UNCHANGED <<rooms, socketData, connectedUsers>>

\* a variant of handleRefreshSession that reports a failure to the room
RefreshSessionDone_ErrorToRoom(task) ==
  /\ inbox' =
       IF task.res # "ok"
       THEN Broadcast(inbox, Conns, Msg("session-error", task.res, 0))
       ELSE Send(inbox, task.conn, SessionMsg("session-refreshed", task.sid, NoUser, task.loc))
  /\ UNCHANGED <<rooms, socketData, connectedUsers>>

\* handleRefreshSession after getSession returned
RefreshSessionDone(task) ==
  /\ inbox' =
       IF task.res # "ok"
       THEN Send(inbox, task.conn, Msg("session-error", task.res, 0))
       ELSE Send(inbox, task.conn, SessionMsg("session-refreshed", task.sid, NoUser, task.loc))
  /\ UNCHANGED <<rooms, socketData, connectedUsers>>

\* the handler resumes after its last store call and completes: a service
\* call returns to its caller; a hub handler reports or broadcasts
Return(t) ==
  /\ tasks[t].pc = "ret"
  /\ LET task == tasks[t]
     IN /\ done' = done \cup {DoneRecord(task)}
        /\ tasks' = [tasks EXCEPT ![t] = IdleTask]
        /\ CASE task.handler = "join-session" -> JoinSessionDone(task)
             [] task.handler = "leave-session" -> LeaveSessionDone(task)
             [] task.handler = "disconnect" -> DisconnectionDone(task)
             [] task.handler = "video-event" -> VideoEventDone(task)
             [] task.handler = "video-url-update" -> VideoUrlUpdateDone(task)
             [] task.handler = "refresh-session" -> RefreshSessionDone(task)
             [] OTHER -> UNCHANGED <<inbox, rooms, socketData, connectedUsers>>
  /\ UNCHANGED <<db, cache, nOps, now, client, open>>

\* an event that the hub handled without calling a service
Handled(handler, c, res) ==
  [id |-> nOps + 1, op |-> "none", sid |-> NoSid, uid |-> NoUser, ev |-> NoEvent,
   res |-> res, arg |-> <<>>, conn |-> c, handler |-> handler, joined |-> {},
   ts |-> 0]

\* handleJoinSession up to its first await
OnJoinSession(t, c, sid, userId) ==
  /\ c \in open
  /\ IF sid = NoSid \/ userId = NoUser
     THEN /\ inbox' = Send(inbox, c, Msg("session-error", "VALIDATION_ERROR", 0))
          /\ done' = done \cup {Handled("join-session", c, "VALIDATION_ERROR")}
          /\ nOps' = nOps + 1
          /\ UNCHANGED tasks
     ELSE /\ Launch(t, [NewTask("join", "fb_get", sid, userId) EXCEPT
                          !.conn = c, !.handler = "join-session"])
          /\ UNCHANGED <<inbox, done>>
  /\ UNCHANGED <<db, cache, now, socketData, rooms, client, connectedUsers, open>>

\* handleLeaveSession up to its first await: data || socket.data || {}
OnLeaveSession(t, c, hasData, data) ==
  /\ c \in open
  /\ LET payload == IF hasData THEN data ELSE socketData[c]
     IN IF payload.sessionId = NoSid \/ payload.userId = NoUser
        THEN /\ done' = done \cup {Handled("leave-session", c, "ignored")}
             /\ nOps' = nOps + 1
             /\ UNCHANGED tasks
        ELSE /\ Launch(t, [NewTask("leave", "fb_get", payload.sessionId, payload.userId) EXCEPT
                             !.conn = c, !.handler = "leave-session"])
             /\ UNCHANGED done
  /\ UNCHANGED <<db, cache, now, hubVars>>

\* handleVideoUrlUpdate up to its first await
OnVideoUrlUpdate(t, c, sid, videoUrl, userId) ==
  /\ c \in open
  /\ IF sid = NoSid \/ videoUrl = NoUrl \/ userId = NoUser
     THEN /\ inbox' = Send(inbox, c, Msg("session-error", "VALIDATION_ERROR", 0))
          /\ done' = done \cup {Handled("video-url-update", c, "VALIDATION_ERROR")}
          /\ nOps' = nOps + 1
          /\ UNCHANGED tasks
     ELSE /\ Launch(t, [NewTask("setUrl", "upd", sid, userId) EXCEPT
                          !.conn = c, !.handler = "video-url-update",
                          !.patch = SetVideoUrlPatch(videoUrl)])
          /\ UNCHANGED <<inbox, done>>
  /\ UNCHANGED <<db, cache, now, socketData, rooms, client, connectedUsers, open>>

\* handleRefreshSession up to its first await
OnRefreshSession(t, c, sid) ==
  /\ c \in open
  /\ IF sid = NoSid
     THEN /\ inbox' = Send(inbox, c, Msg("session-error", "VALIDATION_ERROR", 0))
          /\ done' = done \cup {Handled("refresh-session", c, "VALIDATION_ERROR")}
          /\ nOps' = nOps + 1
          /\ UNCHANGED tasks
     ELSE /\ Launch(t, [NewTask("get", "fb_get", sid, NoUser) EXCEPT
                          !.conn = c, !.handler = "refresh-session"])
          /\ UNCHANGED <<inbox, done>>
  /\ UNCHANGED <<db, cache, now, socketData, rooms, client, connectedUsers, open>>

\* the sessions and participants a socket has joined, when it has sent no
\* leave-session
JoinedBy(c) ==
  IF \/ \E d \in done : d.handler = "leave-session" /\ d.conn = c
     \/ \E t \in TaskIds : tasks[t].handler = "leave-session" /\ tasks[t].conn = c
  THEN {}
  ELSE {<<d.sid, d.uid>> : d \in {e \in done : e.handler = "join-session" /\ e.conn = c
                                                /\ e.res = "ok"}}

\* the socket disconnects: it has left its rooms when handleDisconnection
\* runs, which starts handleUserDisconnection if socket.data is set
OnDisconnect(t, c) ==
  /\ c \in open
  /\ open' = open \ {c}
  /\ rooms' = [rooms EXCEPT ![c] = {}]
  /\ inbox' = [inbox EXCEPT ![c] = <<>>]
  /\ done' = done \cup {[Handled("disconnect", c, "closed") EXCEPT !.joined = JoinedBy(c)]}
  /\ IF socketData[c].sessionId # NoSid /\ socketData[c].userId # NoUser
     THEN Launch(t, [NewTask("leave", "fb_get", socketData[c].sessionId, socketData[c].userId)
                       EXCEPT !.conn = c, !.handler = "disconnect"])
     ELSE nOps' = nOps + 1 /\ UNCHANGED tasks
  /\ UNCHANGED <<db, cache, now, socketData, client, connectedUsers>>

\* a message sent to a connection reaches its client
Deliver(c) ==
  /\ inbox[c] # <<>>
  /\ inbox' = [inbox EXCEPT ![c] = Tail(@)]
  /\ client' = [client EXCEPT ![c] =
                  IF Head(inbox[c]).ev = "video-sync" THEN RemoteView(@, Head(inbox[c]))
                  ELSE @]
  /\ UNCHANGED <<db, cache, tasks, done, nOps, now, socketData, rooms, connectedUsers, open>>

(***************************************************************************)
(* Spec: the session lifecycle manager under concurrent callers            *)
(***************************************************************************)
LifecycleSids == {"s1"}
Urls == {"u1"}
PlayAt5 == [type |-> "PLAY", currentTime |-> 5, url |-> NoUrl]

CallCreate == \E t \in TaskIds, u \in Users : nOps < MaxOps /\ StartCreate(t, LifecycleSids, u)
CallJoin == \E t \in TaskIds, s \in LifecycleSids, u \in Users : nOps < MaxOps /\ StartJoin(t, s, u)
CallLeave == \E t \in TaskIds, s \in LifecycleSids, u \in Users : nOps < MaxOps /\ StartLeave(t, s, u)
CallSetVideoUrl == \E t \in TaskIds, s \in LifecycleSids, u \in Urls : nOps < MaxOps /\ StartSetVideoUrl(t, s, u)
CallEnd == \E t \in TaskIds, s \in LifecycleSids : nOps < MaxOps /\ StartEnd(t, s)
CallEngineEvent ==
  \E t \in TaskIds, s \in LifecycleSids :
    nOps < MaxOps /\ StartEngineEvent(t, s, "A", PlayAt5, 0)

StepFbGet == \E t \in TaskIds : FbGet(t)
StepFbDb == \E t \in TaskIds : FbDb(t)
StepFbSet == \E t \in TaskIds : FbSet(t)
StepInsert == \E t \in TaskIds : Insert(t)
StepUpd == \E t \in TaskIds : Upd(t)
StepUpdC == \E t \in TaskIds : UpdC(t)
StepReturn == \E t \in TaskIds : Return(t)
StepExpire == \E s \in SessionIds : CacheExpire(s)
StepDeliver == \E c \in Conns : Deliver(c)

Next ==
  \/ CallCreate \/ CallJoin \/ CallLeave \/ CallSetVideoUrl \/ CallEnd
  \/ CallEngineEvent
  \/ StepFbGet \/ StepFbDb \/ StepFbSet \/ StepInsert \/ StepUpd \/ StepUpdC
  \/ StepReturn \/ StepExpire

Spec == Init /\ [][Next]_vars

(***************************************************************************)
(* SpecSync: video events in a room.  The initial state is the one reached *)
(* after A created s1, B joined it and a video URL was set, with           *)
(* connection c1 (A) and c2 (B) in the room and c3 connected outside it.   *)
(* Each event reaches the hub at a later clock reading than the one before.*)
(***************************************************************************)
SyncRow ==
  [NewRow("A", "ACTIVE", <<"A", "B">>) EXCEPT !.videoUrl = "u1"]

InitSync ==
  /\ db = [s \in SessionIds |-> IF s = "s1" THEN SyncRow ELSE NoRow]
  /\ cache = [s \in SessionIds |-> IF s = "s1" THEN SyncRow ELSE NoRow]
  /\ tasks = [t \in TaskIds |-> IdleTask]
  /\ done = {}
  /\ nOps = 0
  /\ now = 1
  /\ socketData = [c \in Conns |->
                     CASE c = "c1" -> [sessionId |-> "s1", userId |-> "A"]
                       [] c = "c2" -> [sessionId |-> "s1", userId |-> "B"]
                       [] OTHER -> NoSocketData]
  /\ rooms = [c \in Conns |-> IF c \in {"c1", "c2"} THEN {"s1"} ELSE {}]
  /\ inbox = [c \in Conns |-> <<>>]
  /\ client = [c \in Conns |-> NoView]
  /\ connectedUsers = [s \in SessionIds |-> IF s = "s1" THEN {"c1", "c2"} ELSE {}]
  /\ open = Conns

HubEvents ==
  { [type |-> "PLAY", currentTime |-> 5, url |-> NoUrl],
    [type |-> "PAUSE", currentTime |-> 5, url |-> NoUrl],
    [type |-> "SEEK", currentTime |-> 9, url |-> NoUrl] }

OnVideoEvent ==
  \E t \in TaskIds, c \in Conns, e \in HubEvents, adv \in {1} :
    nOps < MaxEvents /\ StartHubVideo(t, c, e, adv)

NextSync ==
  \/ OnVideoEvent
  \/ StepFbGet \/ StepFbDb \/ StepFbSet \/ StepUpd \/ StepUpdC
  \/ StepReturn \/ StepDeliver \/ StepExpire

SpecSync == InitSync /\ [][NextSync]_vars

(***************************************************************************)
(* SpecHub: sockets joining, leaving and disconnecting.  The initial state *)
(* is the one reached after A created s1 and B created s2 over REST, the   *)
(* socket c1 joined s1 as A, and the cache entries have expired; no entry  *)
(* expires during the run (the ttl is one hour).                           *)
(***************************************************************************)
InitHub ==
  /\ db = [s \in SessionIds |->
             IF s = "s1" THEN NewRow("A", "WAITING", <<"A">>) ELSE NewRow("B", "WAITING", <<"B">>)]
  /\ cache = [s \in SessionIds |-> NoRow]
  /\ tasks = [t \in TaskIds |-> IdleTask]
  /\ done = {DoneRecord([IdleTask EXCEPT !.op = "join", !.sid = "s1", !.uid = "A",
                                         !.res = "ok", !.conn = "c1",
                                         !.handler = "join-session"])}
  /\ nOps = 0
  /\ now = 1
  /\ socketData = [c \in Conns |->
                     IF c = "c1" THEN [sessionId |-> "s1", userId |-> "A"] ELSE NoSocketData]
  /\ rooms = [c \in Conns |-> IF c = "c1" THEN {"s1"} ELSE {}]
  /\ inbox = [c \in Conns |-> <<>>]
  /\ client = [c \in Conns |-> NoView]
  /\ connectedUsers = [s \in SessionIds |-> IF s = "s1" THEN {"c1"} ELSE {}]
  /\ open = Conns

HubConns == {"c1", "c2"}

\* the user id a client sends: c1 is the browser of A, c2 the browser of B
UserOf(c) == IF c = "c1" THEN "A" ELSE "B"

JoinSessionEvent ==
  \E t \in TaskIds, c \in HubConns, s \in SessionIds :
    nOps < MaxHubOps /\ OnJoinSession(t, c, s, UserOf(c))

LeaveSessionEvent ==
  \E t \in TaskIds, c \in HubConns :
    nOps < MaxHubOps /\ OnLeaveSession(t, c, FALSE, NoSocketData)

DisconnectEvent ==
  \E t \in TaskIds, c \in HubConns : nOps < MaxHubOps /\ OnDisconnect(t, c)

NextHub ==
  \/ JoinSessionEvent \/ LeaveSessionEvent \/ DisconnectEvent
  \/ StepFbGet \/ StepFbDb \/ StepFbSet \/ StepUpd \/ StepUpdC
  \/ StepReturn \/ StepDeliver

SpecHub == InitHub /\ [][NextHub]_vars

\* the event loop runs every continuation that is ready
HubFairness ==
  /\ WF_vars(StepFbGet) /\ WF_vars(StepFbDb) /\ WF_vars(StepFbSet)
  /\ WF_vars(StepUpd) /\ WF_vars(StepUpdC) /\ WF_vars(StepReturn)

SpecHubLive == SpecHub /\ HubFairness

(***************************************************************************)
(* SpecRoom: the messages a room receives.  The initial state is the one   *)
(* reached after A created s1, B joined and left again and a video URL was *)
(* set, with or without a stored VideoState: s1 is ACTIVE with participant *)
(* A, socket c1 (A) is in its room, c2 and c3 (both B) are connected       *)
(* outside it, and s2 does not exist.  A statement of the store may fail.  *)
(***************************************************************************)
RoomRow(videoState) ==
  [NewRow("A", "ACTIVE", <<"A">>) EXCEPT !.videoUrl = "u1", !.videoState = videoState]

InitRoom ==
  /\ db \in {[s \in SessionIds |-> IF s = "s1" THEN RoomRow(vs) ELSE NoRow] :
               vs \in {NoState, [DefaultState EXCEPT !.currentTime = 2, !.isPlaying = TRUE,
                                                      !.duration = 10, !.url = "u1",
                                                      !.lastUpdated = 1]}}
  /\ cache = [s \in SessionIds |-> NoRow]
  /\ tasks = [t \in TaskIds |-> IdleTask]
  /\ done = {}
  /\ nOps = 0
  /\ now = 1
  /\ socketData = [c \in Conns |->
                     IF c = "c1" THEN [sessionId |-> "s1", userId |-> "A"] ELSE NoSocketData]
  /\ rooms = [c \in Conns |-> IF c = "c1" THEN {"s1"} ELSE {}]
  /\ inbox = [c \in Conns |-> <<>>]
  /\ client = [c \in Conns |-> NoView]
  /\ connectedUsers = [s \in SessionIds |-> IF s = "s1" THEN {"c1"} ELSE {}]
  /\ open = Conns

\* join-session from c2
RoomJoinEvent ==
  \E t \in TaskIds, s \in {"s1", "s2", NoSid} :
    nOps < MaxRoomOps /\ OnJoinSession(t, "c2", s, "B")

\* leave-session from c1 without a payload, from c3 with and without one
RoomLeaveEvent ==
  \E t \in TaskIds :
    /\ nOps < MaxRoomOps
    /\ \/ OnLeaveSession(t, "c1", FALSE, NoSocketData)
       \/ OnLeaveSession(t, "c3", FALSE, NoSocketData)
       \/ OnLeaveSession(t, "c3", TRUE, [sessionId |-> "s2", userId |-> "B"])

\* video-url-update from c1 (in the room) and from c3 (outside it)
RoomUrlEvent ==
  \E t \in TaskIds :
    /\ nOps < MaxRoomOps
    /\ \/ OnVideoUrlUpdate(t, "c1", "s1", "u2", "A")
       \/ OnVideoUrlUpdate(t, "c3", "s1", "u2", "B")
       \/ OnVideoUrlUpdate(t, "c1", "s2", "u2", "A")
       \/ OnVideoUrlUpdate(t, "c1", "s1", NoUrl, "A")

\* video-event from c1 and from c3
RoomVideoEvent ==
  \E t \in TaskIds :
    /\ nOps < MaxRoomOps
    /\ \/ StartHubVideo(t, "c1", [type |-> "PLAY", currentTime |-> 5, url |-> NoUrl], 0)
       \/ StartHubVideo(t, "c1", [type |-> "PLAY", currentTime |-> 12, url |-> NoUrl], 0)
       \/ StartHubVideo(t, "c3", [type |-> "PLAY", currentTime |-> 5, url |-> NoUrl], 0)

\* refresh-session from c3
RoomRefreshEvent ==
  \E t \in TaskIds, s \in {"s1", "s2", NoSid} :
    nOps < MaxRoomOps /\ OnRefreshSession(t, "c3", s)

StepDbFail == \E t \in TaskIds : DbFail(t)

NextRoom ==
  \/ RoomJoinEvent \/ RoomLeaveEvent \/ RoomUrlEvent \/ RoomVideoEvent
  \/ RoomRefreshEvent
  \/ StepFbGet \/ StepFbDb \/ StepFbSet \/ StepUpd \/ StepUpdC \/ StepDbFail
  \/ StepReturn

SpecRoom == InitRoom /\ [][NextRoom]_vars

(***************************************************************************)
(* SpecRefresh: refresh-session next to video-url-update.  The initial     *)
(* state is that of SpecRoom without a stored VideoState: s1 is ACTIVE     *)
(* with participant A and video URL u1, socket c1 (A) is in its room and   *)
(* the cache entry has expired.  c1 sets the video URL and c1 and c3 ask   *)
(* for the session.                                                        *)
(***************************************************************************)
InitRefresh ==
  /\ InitRoom
  /\ db["s1"].videoState = NoState

\* video-url-update from c1
RefreshUrlEvent ==
  \E t \in TaskIds, u \in {"u2", "u3"} :
    nOps < MaxRefreshOps /\ OnVideoUrlUpdate(t, "c1", "s1", u, "A")

\* refresh-session from c1 (in the room) and from c3 (outside it)
RefreshEvent ==
  \E t \in TaskIds, c \in {"c1", "c3"} :
    nOps < MaxRefreshOps /\ OnRefreshSession(t, c, "s1")

NextRefresh ==
  \/ RefreshUrlEvent \/ RefreshEvent
  \/ StepFbGet \/ StepFbDb \/ StepFbSet \/ StepUpd \/ StepUpdC
  \/ StepReturn

SpecRefresh == InitRefresh /\ [][NextRefresh]_vars

(***************************************************************************)
(* SpecEngine: the synchronization engine called by one caller, one call   *)
(* at a time, on a session in any state the store can hold.                *)
(***************************************************************************)
State(currentTime, isPlaying, duration, url, lastUpdated) ==
  [present |-> TRUE, currentTime |-> currentTime, isPlaying |-> isPlaying,
   duration |-> duration, url |-> url, lastUpdated |-> lastUpdated,
   typeofIsPlaying |-> "boolean"]

\* the VideoStates a session may hold: none, or one written by an earlier
\* syncVideoState
StoredStates ==
  {NoState} \cup {State(2, p, d, "u1", 1) : p \in BOOLEAN, d \in {0, 3, 10}}

EngineRow(status, videoState) ==
  [NewRow("A", status,
          CASE status = "WAITING" -> <<"A">>
            [] status = "ACTIVE" -> <<"A", "B">>
            [] OTHER -> <<>>)
     EXCEPT !.videoUrl = "u1", !.videoState = videoState]

EngineRows ==
  {EngineRow("WAITING", NoState)}
    \cup {EngineRow(st, vs) : st \in {"ACTIVE", "ENDED"}, vs \in StoredStates}

InitEngine ==
  /\ db \in {[s \in SessionIds |-> IF s = "s1" THEN row ELSE NoRow] : row \in EngineRows}
  /\ cache = [s \in SessionIds |-> NoRow]
  /\ tasks = [t \in TaskIds |-> IdleTask]
  /\ done = {}
  /\ nOps = 0
  /\ now = 1
  /\ socketData = [c \in Conns |-> NoSocketData]
  /\ rooms = [c \in Conns |-> {}]
  /\ inbox = [c \in Conns |-> <<>>]
  /\ client = [c \in Conns |-> NoView]
  /\ connectedUsers = [s \in SessionIds |-> {}]
  /\ open = Conns

EngineEvents ==
  {[type |-> ty, currentTime |-> 5, url |-> NoUrl] : ty \in {"PLAY", "PAUSE", "SEEK", "ENDED"}}
    \cup {[type |-> "LOAD", currentTime |-> 0, url |-> u] : u \in {NoUrl, "u2"}}
    \cup {[type |-> "VOLUME", currentTime |-> 5, url |-> NoUrl]}

EventStamps == {0, 7}

\* the states passed to syncVideoState: a missing one, valid ones, and one
\* for each shape check
SyncStates ==
  { NoState, State(4, TRUE, 10, "u1", 7), State(4, FALSE, 0, "u1", 7),
    State(0 - 1, TRUE, 10, "u1", 7), State(4, TRUE, 0 - 1, "u1", 7),
    State(12, TRUE, 10, "u1", 7), State(4, TRUE, 10, "u1", 0),
    [State(4, TRUE, 10, "u1", 7) EXCEPT !.typeofIsPlaying = "string"] }

Candidates == {State(4, TRUE, 10, "u1", 100), State(6, FALSE, 10, "u1", 200)}

CandidateLists ==
  {<<>>} \cup {<<x>> : x \in Candidates} \cup {<<x, y>> : x \in Candidates, y \in Candidates}

CallHandleVideoEvent ==
  \E t \in TaskIds, e \in EngineEvents, ts \in EventStamps :
    nOps < MaxEngineOps /\ Quiet /\ HandleVideoEvent(t, "s1", e, "A", ts)

CallSyncVideoState ==
  \E t \in TaskIds, sid \in {"s1", NoSid}, vs \in SyncStates :
    nOps < MaxEngineOps /\ Quiet /\ SyncVideoState(t, sid, vs)

CallResolveConflict ==
  \E t \in TaskIds, l \in CandidateLists :
    nOps < MaxEngineOps /\ Quiet /\ ResolveConflict(t, "s1", l)

NextEngine ==
  \/ CallHandleVideoEvent \/ CallSyncVideoState \/ CallResolveConflict
  \/ StepFbGet \/ StepFbDb \/ StepFbSet \/ StepUpd \/ StepUpdC \/ StepReturn

SpecEngine == InitEngine /\ [][NextEngine]_vars

(***************************************************************************)
(* SpecValidate: validateVideoSync called on pairs of VideoStates          *)
(***************************************************************************)
ValidatedStates ==
  {State(c, TRUE, d, u, 7) : c \in {0, 1000}, d \in {0, 10, 15, 16}, u \in {"u1", "u2"}}

CallValidateVideoSync ==
  \E c \in ValidatedStates, n \in ValidatedStates :
    nOps < MaxValidations /\ ValidateCall(c, n)

NextValidate == CallValidateVideoSync

SpecValidate == Init /\ [][NextValidate]_vars

(***************************************************************************)
(* SpecCreate: createSession called with arbitrary creator ids             *)
(***************************************************************************)
Chars == {" ", "A"}

RECURSIVE SeqsUpTo(_, _)
SeqsUpTo(S, n) ==
  IF n = 0 THEN {<<>>}
  ELSE LET shorter == SeqsUpTo(S, n - 1)
       IN shorter \cup {Append(q, x) : q \in shorter, x \in S}

CreatorIds == SeqsUpTo(Chars, MaxLen)

CallCreateSession ==
  \E t \in TaskIds, u \in CreatorIds : nOps < MaxCreates /\ CreateSession(t, SessionIds, u)

NextCreate ==
  \/ CallCreateSession
  \/ StepInsert \/ StepUpdC \/ StepReturn \/ StepExpire

SpecCreate == Init /\ [][NextCreate]_vars

(***************************************************************************)
(* Properties                                                              *)
(***************************************************************************)
Stored(s) == IF db[s].videoState.present THEN db[s].videoState ELSE DefaultState

Playback(vs) ==
  [currentTime |-> vs.currentTime, isPlaying |-> vs.isPlaying, url |-> vs.url,
   duration |-> vs.duration]

\* the events completed so far, applied one after the other in the order the
\* hub received them (the order of their ids)
RECURSIVE ApplyInOrder(_, _)
ApplyInOrder(state, records) ==
  IF records = {} THEN state
  ELSE LET first == CHOOSE d \in records : \A e \in records : d.id <= e.id
       IN ApplyInOrder(ApplyVideoEvent(state, first.ev, 1), records \ {first})

\* C1: two video events of one session that the hub received as e1 then e2
\* and that were both handled successfully leave the stored VideoState equal
\* to e1 then e2 applied in sequence to the state stored before e1.
C1_AppliedInArrivalOrder ==
  (Quiet /\ nOps = 2 /\ Cardinality(done) = 2 /\ \A d \in done : d.res = "ok")
    => Playback(Stored("s1")) = Playback(ApplyInOrder(DefaultState, done))

\* C2: convergence.  When every event has been processed and every message
\* delivered, every connection in the room holds the playback state stored
\* for the session.
C2_Convergence ==
  (Quiet /\ \A c \in Conns : inbox[c] = <<>>)
    => \A c \in Conns :
         "s1" \in rooms[c] =>
           /\ client[c].currentTime = Stored("s1").currentTime
           /\ client[c].isPlaying = Stored("s1").isPlaying

\* C3: no successful participant update is lost.  Once all calls have
\* returned: after successful joins of two different participants (and no
\* leave) both are in participants; after a successful join of p and a
\* successful leave of q # p (p never asked to leave, q never asked to join)
\* p is in participants and q is not.
C3_NoLostParticipantUpdate ==
  Quiet =>
    \A s \in SessionIds, p \in Users, q \in Users :
      /\ (p # q /\ JoinedOk(s, p) /\ JoinedOk(s, q) /\ \A u \in Users : ~Called("leave", s, u))
           => {p, q} \subseteq SeqToSet(db[s].participants)
      /\ (p # q /\ JoinedOk(s, p) /\ LeftOk(s, q) /\ ~Called("leave", s, p) /\ ~Called("join", s, q))
           => (p \in SeqToSet(db[s].participants) /\ q \notin SeqToSet(db[s].participants))

\* C5: ENDED is terminal: no step changes the status of an ENDED session.
C5_EndedIsTerminal ==
  [][\A s \in SessionIds : db[s].status = "ENDED" => db'[s].status = "ENDED"]_vars

\* C6: in every state of the store a session without participants is ENDED.
C6_EmptyImpliesEnded ==
  \A s \in SessionIds :
    (db[s].exists /\ Len(db[s].participants) = 0) => db[s].status = "ENDED"

\* C7: in every state a session with two or more participants is ACTIVE.
C7_TwoImpliesActive ==
  \A s \in SessionIds :
    (db[s].exists /\ Len(db[s].participants) >= 2) => db[s].status = "ACTIVE"

\* C4: echo suppression.  When the handler of a video-event from connection
\* c in room s completes successfully, a video-sync is appended to the
\* messages of every other connection in room s and nothing is sent to c.
C4_EchoSuppression ==
  [][\A t \in TaskIds :
       (/\ tasks[t].pc = "ret" /\ tasks'[t].pc = "idle"
        /\ tasks[t].op = "video" /\ tasks[t].conn # NoConn /\ tasks[t].res = "ok"
        /\ tasks[t].sid \in rooms[tasks[t].conn])
       => /\ inbox'[tasks[t].conn] = inbox[tasks[t].conn]
          /\ \A d \in Conns \ {tasks[t].conn} :
               IF tasks[t].sid \in rooms[d]
               THEN /\ Len(inbox'[d]) = Len(inbox[d]) + 1
                    /\ inbox'[d][Len(inbox'[d])].ev = "video-sync"
                    /\ inbox'[d][Len(inbox'[d])].type = tasks[t].ev.type
               ELSE inbox'[d] = inbox[d]]_vars

\* C4 witness: an event of A (connection c1) was handled; c2 was sent a
\* video-sync and c1 was sent nothing
C4_Witness ==
  /\ \E d \in done : d.op = "video" /\ d.uid = "A" /\ d.res = "ok"
  /\ \A d \in done : d.uid = "A"
  /\ inbox["c1"] = <<>>
  /\ inbox["c2"] # <<>> /\ inbox["c2"][1].ev = "video-sync"

\* C8: a session that is ACTIVE (or ENDED) is never WAITING in the next
\* state: once ACTIVE, the status is never WAITING again.
C8_NeverBackToWaiting ==
  [][\A s \in SessionIds :
       (db[s].exists /\ db[s].status # "WAITING") => db'[s].status # "WAITING"]_vars

\* C8 witness: a second participant joined and left again; the session has
\* one participant and is still ACTIVE
C8_Witness ==
  /\ db["s1"].status = "ACTIVE" /\ Len(db["s1"].participants) = 1
  /\ JoinedOk("s1", "B") /\ LeftOk("s1", "B")
  /\ Quiet

\* C9: a leaveSession that returns a session without participants returns it
\* with status ENDED, and no step of a joinSession that was called on an
\* ENDED session changes the status of the session.
C9_LastLeaveEnds ==
  /\ [](\A t \in TaskIds :
          (tasks[t].op = "leave" /\ tasks[t].pc = "ret" /\ tasks[t].res = "ok"
           /\ Len(tasks[t].loc.participants) = 0)
          => tasks[t].loc.status = "ENDED")
  /\ [][\A t \in TaskIds :
          (tasks[t].op = "join" /\ tasks'[t] # tasks[t] /\ tasks[t].st0 = "ENDED"
           /\ db[tasks[t].sid].status = "ENDED")
          => db'[tasks[t].sid].status = "ENDED"]_vars

\* C9 witness: the creator left, the session ended, and a join called after
\* that has succeeded and left the session ENDED
C9_Witness ==
  /\ LeftOk("s1", "A") /\ db["s1"].status = "ENDED"
  /\ \E t \in TaskIds :
       /\ tasks[t].op = "join" /\ tasks[t].pc = "ret" /\ tasks[t].res = "ok"
       /\ tasks[t].st0 = "ENDED"
       /\ tasks[t].uid \in SeqToSet(db["s1"].participants)

\* C10: participants never holds a duplicate; after a successful
\* joinSession(s, p) every further joinSession(s, p) succeeds and returns
\* participants with p exactly once; and a joinSession whose participant is
\* already in participants, and whose read of participants is still current,
\* writes participants back unchanged.
C10_JoinIdempotent ==
  /\ [](\A s \in SessionIds : NoDup(db[s].participants))
  /\ [](\A t \in TaskIds :
          (tasks[t].op = "join" /\ tasks[t].pc = "ret" /\ tasks[t].rejoin)
          => /\ tasks[t].res = "ok"
             /\ Cardinality({i \in 1..Len(tasks[t].loc.participants) :
                               tasks[t].loc.participants[i] = tasks[t].uid}) = 1)
  /\ [][\A t \in TaskIds :
          (/\ tasks[t].op = "join" /\ tasks[t].pc = "upd" /\ tasks[t].phase = 2
           /\ tasks'[t].pc = "updc"
           /\ tasks[t].uid \in SeqToSet(db[tasks[t].sid].participants)
           /\ tasks[t].loc.participants = db[tasks[t].sid].participants)
          => db'[tasks[t].sid].participants = db[tasks[t].sid].participants]_vars

\* C10 witness: B joined twice and is in participants once
C10_Witness ==
  /\ Quiet
  /\ Cardinality({d \in done : d.op = "join" /\ d.uid = "B" /\ d.res = "ok"}) = 2
  /\ db["s1"].participants = <<"A", "B">>

\* C11: a createSession whose creator id is not empty after trimming
\* succeeds, and the session it inserts has status WAITING and exactly one
\* participant, the trimmed id; a createSession whose creator id is empty or
\* all whitespace fails with ValidationError and creates no session.
C11_CreateSession ==
  /\ [](\A d \in done :
          d.op = "create" =>
            IF Len(d.arg) > 0 /\ \E i \in 1..Len(d.arg) : d.arg[i] \notin Whitespace
            THEN d.res = "ok"
            ELSE d.res = "VALIDATION_ERROR" /\ d.sid = NoSid)
  /\ [][\A t \in TaskIds :
          (tasks[t].op = "create" /\ tasks[t].pc = "ins" /\ tasks'[t].pc # "ins")
          => LET row == db'[tasks[t].sid]
                 id == tasks[t].arg
                 solid == {i \in 1..Len(id) : id[i] \notin Whitespace}
                 first == CHOOSE i \in solid : \A j \in solid : i <= j
                 last == CHOOSE i \in solid : \A j \in solid : j <= i
             IN /\ ~db[tasks[t].sid].exists /\ row.exists
                /\ row.status = "WAITING"
                /\ solid # {}
                /\ row.participants = <<Str(SubSeq(id, first, last))>>]_vars
  /\ [][(\E d \in done' \ done : d.res = "VALIDATION_ERROR")
          => (db' = db /\ cache' = cache /\ tasks' = tasks)]_vars

\* C11 witness: a creator id with whitespace around it was accepted and a
\* blank one was rejected; the session created holds the trimmed id
C11_Witness ==
  /\ \E d \in done : d.op = "create" /\ d.res = "ok" /\ d.arg = <<" ", "A", " ">>
                      /\ db[d.sid].participants = <<"A">> /\ db[d.sid].status = "WAITING"
  /\ \E d \in done : d.op = "create" /\ d.res = "VALIDATION_ERROR" /\ d.arg = <<" ", " ">>

\* a connection that had joined s as p, and had sent no leave-session, has
\* disconnected
Dropped(c, s, p) ==
  \E d \in done : d.handler = "disconnect" /\ d.conn = c /\ <<s, p>> \in d.joined

\* C12: if a connection that joined session s as participant p disconnects
\* without having sent leave-session, then in some state after the
\* disconnection p is not in the participants of s.
C12_DisconnectRemoves ==
  \A c \in HubConns, s \in SessionIds, p \in Users :
    (<>Dropped(c, s, p))
      => <>(Dropped(c, s, p) /\ p \notin SeqToSet(db[s].participants))

\* C13: in every state each connection is in at most one session room.
C13_OneRoomPerConnection ==
  \A c \in Conns : Cardinality(rooms[c]) <= 1

\* C14: in every state of a session, when videoState is present, videoUrl
\* is present and videoState.url equals videoUrl.
C14_VideoStateUrl ==
  \A s \in SessionIds :
    db[s].videoState.present =>
      (db[s].videoUrl # NoUrl /\ db[s].videoState.url = db[s].videoUrl)

\* the stored VideoState a call found, the zeroed default when none is stored
Prior(task) ==
  IF task.vs0.present THEN task.vs0
  ELSE [currentTime |-> 0, isPlaying |-> FALSE, duration |-> 0, url |-> NoUrl,
        lastUpdated |-> 0]

\* C15: a successful handleVideoEvent on a session with stored VideoState S
\* returns, for PLAY, currentTime = e.currentTime and isPlaying = true; for
\* PAUSE, currentTime = e.currentTime and isPlaying = false; for SEEK,
\* currentTime = e.currentTime and isPlaying as in S; for LOAD, url = e.url
\* when given else S.url, currentTime = 0 and isPlaying = false; for ENDED,
\* currentTime = S.duration and isPlaying = false; always lastUpdated =
\* e.timestamp and every other field as in S.
C15_EventTable ==
  \A t \in TaskIds :
    (/\ tasks[t].op = "video" /\ tasks[t].pc = "ret" /\ tasks[t].res = "ok"
     /\ tasks[t].ev.type \in EventTypes)
    => LET S == Prior(tasks[t])
           e == tasks[t].ev
           r == tasks[t].ns
       IN /\ tasks[t].st0 = "ACTIVE"
          /\ r.lastUpdated = tasks[t].ts
          /\ r.duration = S.duration
          /\ e.type = "PLAY" =>
                (r.currentTime = e.currentTime /\ r.isPlaying = TRUE /\ r.url = S.url)
          /\ e.type = "PAUSE" =>
                (r.currentTime = e.currentTime /\ r.isPlaying = FALSE /\ r.url = S.url)
          /\ e.type = "SEEK" =>
                (r.currentTime = e.currentTime /\ r.isPlaying = S.isPlaying /\ r.url = S.url)
          /\ e.type = "LOAD" =>
                /\ r.url = (IF e.url # NoUrl THEN e.url ELSE S.url)
                /\ r.currentTime = 0 /\ r.isPlaying = FALSE
          /\ e.type = "ENDED" =>
                (r.currentTime = S.duration /\ r.isPlaying = FALSE /\ r.url = S.url)

\* C15 witness: a SEEK was handled on a session whose stored state was
\* playing, after an ENDED event had been handled on a video of duration 10
C15_Witness ==
  /\ \E t \in TaskIds :
       /\ tasks[t].op = "video" /\ tasks[t].pc = "ret" /\ tasks[t].res = "ok"
       /\ tasks[t].ev.type = "SEEK" /\ tasks[t].ns.currentTime = 5
       /\ tasks[t].ns.duration = 10
  /\ \E d \in done : d.op = "video" /\ d.res = "ok" /\ d.ev.type = "ENDED"

\* the second of two calls: a PLAY at 5 right after a LOAD with a url, on a
\* session that was ACTIVE; both events carry a timestamp (a time after 0)
PlayAfterLoad(task, d) ==
  /\ task.op = "video" /\ task.pc = "ret" /\ task.id = d.id + 1
  /\ task.ev.type = "PLAY" /\ task.ev.currentTime = 5 /\ task.st0 = "ACTIVE"
  /\ d.op = "video" /\ d.ev.type = "LOAD" /\ d.ev.url # NoUrl
  /\ d.ts > 0 /\ task.ts > 0

\* the VideoState returned by the call and the one stored are {url,
\* currentTime 5, isPlaying true}
YieldsAt5(task, url) ==
  /\ task.res = "ok"
  /\ task.ns.url = url /\ task.ns.currentTime = 5 /\ task.ns.isPlaying = TRUE
  /\ db[task.sid].videoState.present
  /\ db[task.sid].videoState.url = url
  /\ db[task.sid].videoState.currentTime = 5
  /\ db[task.sid].videoState.isPlaying = TRUE

\* C16 as stated: for every url u and ACTIVE session, a LOAD event with url
\* u followed immediately by a PLAY event with currentTime 5 yields
\* {url u, currentTime 5, isPlaying true} as the value returned by the
\* second call and as the stored VideoState.
C16_LoadThenPlay ==
  \A t \in TaskIds : \A d \in done :
    PlayAfterLoad(tasks[t], d) => YieldsAt5(tasks[t], d.ev.url)

\* C16 amended: the same, on an ACTIVE session whose stored duration is 0
\* (unknown) or at least 5.
C16_LoadThenPlayValid ==
  \A t \in TaskIds : \A d \in done :
    (/\ PlayAfterLoad(tasks[t], d)
     /\ (Prior(tasks[t]).duration = 0 \/ Prior(tasks[t]).duration >= 5))
    => YieldsAt5(tasks[t], d.ev.url)

\* C16 witness: LOAD u2 then PLAY at 5 on a session that stored url u1
C16_Witness ==
  \E t \in TaskIds : \E d \in done :
    /\ PlayAfterLoad(tasks[t], d) /\ d.res = "ok" /\ tasks[t].res = "ok"
    /\ d.ev.url = "u2" /\ db["s1"].videoState.url = "u2"
    /\ db["s1"].videoState.currentTime = 5 /\ db["s1"].videoState.duration = 10

\* C17 as stated: every syncVideoState, handleVideoEvent and resolveConflict
\* on a session whose status is WAITING or ENDED fails with SyncFailedError
\* and leaves the stored videoState unchanged.
C17_InactiveFails ==
  /\ \A d \in done :
       (d.op \in EngineOps /\ d.sid \in SessionIds /\ db[d.sid].status \in {"WAITING", "ENDED"})
       => d.res = "SYNC_FAILED"
  /\ \A t \in TaskIds :
       (tasks[t].op \in EngineOps /\ tasks[t].pc = "ret" /\ tasks[t].st0 \in {"WAITING", "ENDED"})
       => db[tasks[t].sid].videoState = tasks[t].vs0

\* C17 amended: a syncVideoState called with a videoState, a
\* handleVideoEvent called with an event and a user id, and a
\* resolveConflict called with a non-empty list, on a session whose status
\* is WAITING or ENDED, fail with SyncFailedError and leave the stored
\* videoState unchanged.
C17_InactiveFailsGivenArguments ==
  \A t \in TaskIds :
    (tasks[t].op \in EngineOps /\ tasks[t].pc = "ret" /\ tasks[t].st0 \in {"WAITING", "ENDED"})
    => /\ tasks[t].res = "SYNC_FAILED"
       /\ db[tasks[t].sid].videoState = tasks[t].vs0

\* C17 witness: on an ENDED session that holds a VideoState, a
\* syncVideoState with a state of negative currentTime has failed with
\* SyncFailedError, after a handleVideoEvent had failed the same way
C17_Witness ==
  /\ \E t \in TaskIds :
       /\ tasks[t].op = "sync" /\ tasks[t].pc = "ret" /\ tasks[t].res = "SYNC_FAILED"
       /\ tasks[t].st0 = "ENDED" /\ tasks[t].ns.currentTime < 0
       /\ tasks[t].vs0.present
  /\ \E d \in done : d.op = "video" /\ d.res = "SYNC_FAILED"

\* the state fails one of the shape checks
ShapeViolated(vs) ==
  \/ vs.currentTime < 0
  \/ vs.duration < 0
  \/ (vs.duration > 0 /\ vs.currentTime > vs.duration)
  \/ vs.typeofIsPlaying # "boolean"

\* C18 as stated: on any existing session syncVideoState fails with
\* ValidationError, and persists nothing, whenever the sessionId or the
\* videoState is missing or the state violates a shape check.
C18_InvalidRejected ==
  /\ \A d \in done :
       (d.op = "sync" /\ (d.sid = NoSid \/ ~d.arg[1].present \/ ShapeViolated(d.arg[1])))
       => d.res = "VALIDATION_ERROR"
  /\ \A t \in TaskIds :
       (tasks[t].op = "sync" /\ tasks[t].pc = "ret" /\ ShapeViolated(tasks[t].arg[1]))
       => db[tasks[t].sid].videoState = tasks[t].vs0

\* C18 amended: syncVideoState fails with ValidationError, and persists
\* nothing, whenever the sessionId or the videoState is missing, and, on an
\* ACTIVE session, whenever the state violates a shape check.
C18_InvalidRejectedWhenActive ==
  /\ \A d \in done :
       (d.op = "sync" /\ (d.sid = NoSid \/ ~d.arg[1].present))
       => d.res = "VALIDATION_ERROR"
  /\ [][(\E d \in done' \ done : d.op = "sync" /\ d.res = "VALIDATION_ERROR")
          => db' = db]_vars
  /\ [](\A t \in TaskIds :
          (tasks[t].op = "sync" /\ tasks[t].pc = "ret" /\ tasks[t].st0 = "ACTIVE"
           /\ ShapeViolated(tasks[t].arg[1]))
          => /\ tasks[t].res = "VALIDATION_ERROR"
             /\ db[tasks[t].sid].videoState = tasks[t].vs0)

\* C18 witness: on an ACTIVE session a state with currentTime 12 and
\* duration 10 was refused, after a call without a videoState was refused
C18_Witness ==
  /\ \E t \in TaskIds :
       /\ tasks[t].op = "sync" /\ tasks[t].pc = "ret"
       /\ tasks[t].res = "VALIDATION_ERROR" /\ tasks[t].st0 = "ACTIVE"
       /\ tasks[t].ns.currentTime = 12 /\ tasks[t].ns.duration = 10
  /\ \E d \in done : d.op = "sync" /\ d.res = "VALIDATION_ERROR" /\ ~d.arg[1].present

\* a resolveConflict with a non-empty list of valid candidates on an ACTIVE
\* session is about to return
Resolving(task) ==
  /\ task.op = "resolve" /\ task.pc = "ret" /\ task.st0 = "ACTIVE"
  /\ \A i \in 1..Len(task.arg) : ~ShapeViolated(task.arg[i]) /\ task.arg[i].lastUpdated > 0

\* the value returned is a candidate of greatest lastUpdated, unchanged
ReturnsLatest(task) ==
  /\ task.res = "ok"
  /\ \E i \in 1..Len(task.arg) : task.ns = task.arg[i]
  /\ \A i \in 1..Len(task.arg) : task.arg[i].lastUpdated <= task.ns.lastUpdated
  /\ Len(task.arg) = 1 => task.ns = task.arg[1]

\* C19 as stated: for a non-empty list of valid candidates on an ACTIVE
\* session resolveConflict returns a candidate of greatest lastUpdated,
\* field for field unchanged, and that candidate is the stored VideoState;
\* for an empty list it fails with ValidationError.
C19_ResolveConflict ==
  /\ \A t \in TaskIds :
       Resolving(tasks[t])
       => (ReturnsLatest(tasks[t]) /\ db[tasks[t].sid].videoState = tasks[t].ns)
  /\ \A d \in done : (d.op = "resolve" /\ d.arg = <<>>) => d.res = "VALIDATION_ERROR"

\* C19 amended: the same, where the stored VideoState is that candidate
\* with lastUpdated replaced by the time of the write; and the call with an
\* empty list changes nothing in the store.
C19_ResolveConflictStamped ==
  /\ [](\A t \in TaskIds :
          Resolving(tasks[t])
          => /\ ReturnsLatest(tasks[t])
             /\ \E stamp \in 1..now :
                  db[tasks[t].sid].videoState = [tasks[t].ns EXCEPT !.lastUpdated = stamp])
  /\ [](\A d \in done : (d.op = "resolve" /\ d.arg = <<>>) => d.res = "VALIDATION_ERROR")
  /\ [][(\E d \in done' \ done : d.op = "resolve" /\ d.res = "VALIDATION_ERROR")
          => (db' = db /\ cache' = cache)]_vars

\* C19 witness: of two candidates the second, with the greater lastUpdated,
\* was returned and stored, after a call with an empty list was refused
C19_Witness ==
  /\ \E t \in TaskIds :
       /\ Resolving(tasks[t]) /\ tasks[t].res = "ok" /\ Len(tasks[t].arg) = 2
       /\ tasks[t].arg[1].lastUpdated = 100 /\ tasks[t].ns.lastUpdated = 200
       /\ db["s1"].videoState.currentTime = 6 /\ ~tasks[t].vs0.present
  /\ \E d \in done : d.op = "resolve" /\ d.arg = <<>> /\ d.res = "VALIDATION_ERROR"

\* C20: validateVideoSync(current, next) returns false exactly when the urls
\* differ or both durations are greater than 0 and differ by more than 5; it
\* returns true when only currentTime differs, by any amount.
C20_ValidateVideoSync ==
  \A d \in done :
    d.op = "validate" =>
      LET current == d.arg[1]
          next == d.arg[2]
          apart == IF current.duration > next.duration
                   THEN current.duration - next.duration
                   ELSE next.duration - current.duration
      IN /\ (d.res = "false") <=>
              \/ current.url # next.url
              \/ (current.duration > 0 /\ next.duration > 0 /\ apart > 5)
         /\ [current EXCEPT !.currentTime = 0] = [next EXCEPT !.currentTime = 0]
              => d.res = "true"

\* C20 witness: two states that differ only in currentTime, by 1000, were
\* found consistent
C20_Witness ==
  \E d \in done :
    /\ d.op = "validate" /\ d.res = "true"
    /\ d.arg[1].currentTime = 0 /\ d.arg[2].currentTime = 1000
    /\ d.arg[1].duration = 10 /\ d.arg[2].duration = 10
    /\ d.arg[1].url = d.arg[2].url

\* C21: a handleVideoEvent on an ACTIVE session with an event whose type is
\* none of PLAY, PAUSE, SEEK, LOAD, ENDED succeeds, returns the prior
\* VideoState (the zeroed default when none is stored) unchanged, and leaves
\* the stored VideoState unchanged.
C21_UnknownEventNoOp ==
  \A t \in TaskIds :
    (/\ tasks[t].op = "video" /\ tasks[t].pc = "ret" /\ tasks[t].st0 = "ACTIVE"
     /\ tasks[t].ev.type \notin EventTypes)
    => LET S == Prior(tasks[t])
           r == tasks[t].ns
       IN /\ tasks[t].res = "ok"
          /\ r.currentTime = S.currentTime /\ r.isPlaying = S.isPlaying
          /\ r.duration = S.duration /\ r.url = S.url
          /\ r.lastUpdated = S.lastUpdated
          /\ db[tasks[t].sid].videoState = tasks[t].vs0

\* the shape every stored VideoState is to have
WellFormed(vs) ==
  /\ vs.currentTime >= 0
  /\ vs.duration >= 0
  /\ vs.duration > 0 => vs.currentTime <= vs.duration

\* C22: every VideoState stored for a session satisfies currentTime >= 0,
\* duration >= 0 and, when duration > 0, currentTime <= duration, after any
\* sequence of video events, syncVideoState calls and conflict resolutions.
C22_StoredStateWellFormed ==
  \A s \in SessionIds : db[s].videoState.present => WellFormed(db[s].videoState)

\* C22 witness: a state with currentTime 12 and duration 10 was refused, and
\* the state then stored by a PLAY at 5 on a video of duration 10 is in place
C22_Witness ==
  /\ \E d \in done :
       /\ d.op = "sync" /\ d.res = "VALIDATION_ERROR" /\ d.arg[1].present
       /\ d.arg[1].currentTime = 12 /\ d.arg[1].duration = 10
  /\ \E t \in TaskIds :
       /\ tasks[t].op = "video" /\ tasks[t].pc = "ret" /\ tasks[t].res = "ok"
       /\ tasks[t].ev.type = "PLAY"
       /\ db["s1"].videoState.currentTime = 5 /\ db["s1"].videoState.duration = 10

\* the handler of the given socket event completes in this step
Completes(t, handler) ==
  tasks[t].pc = "ret" /\ tasks'[t].pc = "idle" /\ tasks[t].handler = handler

\* the last message sent to connection d in this step, when exactly one was
LastSent(d) == inbox'[d][Len(inbox'[d])]

SentOne(d) == Len(inbox'[d]) = Len(inbox[d]) + 1 /\ SubSeq(inbox'[d], 1, Len(inbox[d])) = inbox[d]

\* C23: when a video-url-update from connection c for session s succeeds, a
\* video-url-updated with the snapshot the update returned is sent to every
\* connection in room s and to c itself.
C23_UrlUpdatedToAll ==
  [][\A t \in TaskIds :
       (Completes(t, "video-url-update") /\ tasks[t].res = "ok")
       => \A d \in Room(tasks[t].sid) \cup {tasks[t].conn} :
            /\ SentOne(d)
            /\ LastSent(d).ev = "video-url-updated"
            /\ LastSent(d).videoUrl = tasks[t].patch.videoUrl
            /\ LastSent(d).status = tasks[t].loc.status
            /\ LastSent(d).participants = tasks[t].loc.participants]_vars

C25_VideoSyncCarriesState ==
  [][\A t \in TaskIds :
       (Completes(t, "video-event") /\ tasks[t].res = "ok")
       => \A d \in RoomExcept(tasks[t].sid, tasks[t].conn) :
            /\ SentOne(d)
            /\ LastSent(d).ev = "video-sync"
            /\ LastSent(d).type = tasks[t].ev.type
            /\ LastSent(d).currentTime = tasks[t].ns.currentTime
            /\ "isPlaying" \in LastSent(d).fields
            /\ LastSent(d).isPlaying = tasks[t].ns.isPlaying]_vars

\* C26: when a leave-session or a disconnect removes a participant and the
\* removal leaves a participant in the session, no step of the leave changes
\* the status of the session, the leaver is not in the participants
\* returned, and every other connection in the room is sent user-left with
\* those participants.
C26_LeaveNotifiesRemaining ==
  /\ [][\A t \in TaskIds :
          (tasks[t].op = "leave" /\ tasks[t].phase = 1 /\ tasks'[t] # tasks[t])
          => db'[tasks[t].sid].status = db[tasks[t].sid].status]_vars
  /\ [][\A t \in TaskIds :
          (/\ Completes(t, "leave-session") \/ Completes(t, "disconnect")
           /\ tasks[t].res = "ok" /\ Len(tasks[t].loc.participants) >= 1
           /\ tasks[t].phase = 1)
          => /\ tasks[t].uid \notin SeqToSet(tasks[t].loc.participants)
             /\ \A d \in (Conns \ {tasks[t].conn}) \cap open :
                  tasks[t].sid \in rooms[d]
                  => /\ SentOne(d) /\ LastSent(d).ev = "user-left"
                     /\ LastSent(d).userId = tasks[t].uid
                     /\ LastSent(d).participants = tasks[t].loc.participants
                     /\ LastSent(d).status = tasks[t].loc.status]_vars

\* C26 witness: c2 had joined s1 as B; c1 (A) disconnected; c2 was sent
\* user-left and s1 is ACTIVE with participant B
C26_Witness ==
  /\ \E d \in done : d.handler = "disconnect" /\ d.op = "leave" /\ d.res = "ok" /\ d.conn = "c1"
  /\ db["s1"].status = "ACTIVE" /\ db["s1"].participants = <<"B">>
  /\ inbox["c2"] # <<>> /\ inbox["c2"][Len(inbox["c2"])].ev = "user-left"
  /\ inbox["c2"][Len(inbox["c2"])].participants = <<"B">>

\* the socket events a client sends
ClientEvents ==
  {"join-session", "leave-session", "video-url-update", "video-event", "refresh-session"}

\* in this step the handler of an event of connection c ends in the failure res
FailsWith(c, res) ==
  \/ \E t \in TaskIds :
       /\ tasks[t].pc = "ret" /\ tasks'[t].pc = "idle" /\ tasks[t].handler \in ClientEvents
       /\ tasks[t].conn = c /\ tasks[t].res = res /\ res # "ok"
  \/ \E d \in done' \ done :
       /\ d.op = "none" /\ d.handler \in ClientEvents /\ d.conn = c /\ d.res = res
       /\ res # "ignored"

FailureCodes ==
  {"VALIDATION_ERROR", "SESSION_NOT_FOUND", "SYNC_FAILED", "DATABASE_ERROR",
   "NOT_IN_SESSION", "INTERNAL_ERROR"}

C28_FailureKeepsAssignment ==
  [][\A t \in TaskIds :
       (/\ tasks'[t] # tasks[t]
        /\ \/ tasks[t].handler \in {"join-session", "leave-session"}
           \/ tasks'[t].handler \in {"join-session", "leave-session"}
        /\ ~(tasks[t].pc = "ret" /\ tasks[t].res = "ok"))
       => (rooms' = rooms /\ socketData' = socketData /\ connectedUsers' = connectedUsers)]_vars

\* C28 witness: the join-session of c2 failed on the store while c1 is in
\* room s1, and the leave-session of c3 for a session that does not exist
\* failed; c2 and c3 are in no room
C28_Witness ==
  /\ \E d \in done : d.handler = "join-session" /\ d.res = "DATABASE_ERROR" /\ d.conn = "c2"
  /\ \E d \in done : d.handler = "leave-session" /\ d.res = "SESSION_NOT_FOUND" /\ d.conn = "c3"
  /\ rooms["c2"] = {} /\ socketData["c2"] = NoSocketData
  /\ rooms["c1"] = {"s1"} /\ connectedUsers["s1"] = {"c1"}

\* C30: cache coherence: once every write to a session has completed (no
\* call is in progress), a findById of the session returns the durable
\* record: the cache entry, when there is one, equals the durable record.
C30_CacheCoherent ==
  Quiet => \A s \in SessionIds : cache[s].exists => cache[s] = db[s]

\* the session data of a row that the hub sends as a snapshot
Snapshot(row) ==
  [status |-> row.status, participants |-> row.participants, videoUrl |-> row.videoUrl]

\* C29: a refresh-session changes nothing in the durable records; when it
\* succeeds it sends session-refreshed with the snapshot it read to the
\* requesting connection and nothing to any other connection; and the
\* snapshot it reads while no other handler is in progress is the current
\* one, that of the durable record.
C29_RefreshCurrentSnapshot ==
  [][\A t \in TaskIds :
       tasks[t].handler = "refresh-session"
       => /\ tasks'[t] # tasks[t] => db' = db
          /\ (/\ tasks[t].pc \in {"fb_get", "fb_db"}
              /\ tasks'[t].pc \in {"fb_set", "ret"}
              /\ \A u \in TaskIds \ {t} : tasks[u].pc = "idle")
             => Snapshot(tasks'[t].loc) = Snapshot(db[tasks[t].sid])
          /\ (Completes(t, "refresh-session") /\ tasks[t].res = "ok")
             => /\ SentOne(tasks[t].conn)
                /\ LastSent(tasks[t].conn) =
                     SessionMsg("session-refreshed", tasks[t].sid, NoUser, tasks[t].loc)
                /\ \A d \in Conns \ {tasks[t].conn} : inbox'[d] = inbox[d]]_vars

\* C31: endSession on an existing session sets its status to ENDED whatever
\* the participant count and leaves participants, videoUrl and videoState as
\* they are; on a session that is already ENDED it changes nothing; and the
\* call succeeds.
C31_EndSessionIdempotent ==
  [][\A t \in TaskIds :
       (tasks[t].op = "end" /\ tasks'[t] # tasks[t] /\ db[tasks[t].sid].exists)
       => /\ tasks[t].pc = "upd"
             => /\ db' = [db EXCEPT ![tasks[t].sid].status = "ENDED"]
                /\ db[tasks[t].sid].status = "ENDED" => db' = db
                /\ tasks'[t].pc = "updc"
          /\ tasks[t].pc = "updc" => (db' = db /\ tasks'[t].res = "ok")]_vars

\* C31 witness: two endSession calls on s1 have succeeded, the second on the
\* ENDED session, and the participant of s1 is still there
C31_Witness ==
  /\ \E d, e \in done : d.op = "end" /\ e.op = "end" /\ d.id < e.id
                        /\ d.res = "ok" /\ e.res = "ok" /\ d.sid = "s1" /\ e.sid = "s1"
  /\ db["s1"].status = "ENDED" /\ Len(db["s1"].participants) = 1
  /\ Quiet

\* C32: a joinSession on a session whose status is ENDED (when the call is
\* made and while it runs) fails with SessionNotFoundError and leaves the
\* participants of the session as they are.
C32_JoinEndedFails ==
  [][\A t \in TaskIds :
       (/\ tasks[t].op = "join" /\ tasks'[t] # tasks[t]
        /\ tasks[t].st0 = "ENDED" /\ db[tasks[t].sid].status = "ENDED")
       => /\ db'[tasks[t].sid].participants = db[tasks[t].sid].participants
          /\ tasks'[t].pc = "ret" => tasks'[t].res = "SESSION_NOT_FOUND"]_vars

(***************************************************************************)
(* SpecSimple: the in-memory server (app.simple.ts).  Its handlers are     *)
(* synchronous: each runs to completion on the sessionStore map, here db,  *)
(* and there is no cache.  Sessions are created over REST and joined over  *)
(* REST and over the socket.                                               *)
(***************************************************************************)
\* POST /api/sessions/:sessionId/join on a stored session
RestJoin(session, userId) ==
  [session EXCEPT
     !.participants = IF userId \in SeqToSet(@) THEN @ ELSE Append(@, userId),
     !.status = "ACTIVE"]

\* socket.on('join-session') on a stored session
SocketJoin(session, userId) ==
  IF userId \in SeqToSet(session.participants) THEN session
  ELSE [session EXCEPT !.participants = Append(@, userId), !.status = "ACTIVE"]

\* POST /api/sessions
SimpleCreate ==
  \E sid \in SessionIds, userId \in Users \cup {NoUser} :
    /\ nOps < MaxSimpleOps
    /\ ~db[sid].exists
    /\ nOps' = nOps + 1
    /\ db' = IF userId = NoUser THEN db
             ELSE [db EXCEPT ![sid] = NewRow(userId, "WAITING", <<userId>>)]
    /\ UNCHANGED <<cache, tasks, done, now, hubVars>>

\* POST /api/sessions/:sessionId/join
SimpleRestJoin ==
  \E sid \in SessionIds, userId \in Users \cup {NoUser} :
    /\ nOps < MaxSimpleOps
    /\ nOps' = nOps + 1
    /\ db' = IF userId = NoUser \/ ~db[sid].exists THEN db
             ELSE [db EXCEPT ![sid] = RestJoin(db[sid], userId)]
    /\ UNCHANGED <<cache, tasks, done, now, hubVars>>

\* socket.on('join-session')
SimpleSocketJoin ==
  \E c \in Conns, sid \in SessionIds, userId \in Users :
    /\ nOps < MaxSimpleOps
    /\ nOps' = nOps + 1
    /\ IF ~db[sid].exists
       THEN /\ inbox' = EmitTo(inbox, c, Msg("session-error", "SESSION_NOT_FOUND", 0))
            /\ UNCHANGED <<db, rooms, socketData>>
       ELSE LET session == SocketJoin(db[sid], userId)
            IN /\ db' = [db EXCEPT ![sid] = session]
               /\ rooms' = [rooms EXCEPT ![c] = @ \cup {sid}]
               /\ socketData' = [socketData EXCEPT ![c] = [sessionId |-> sid, userId |-> userId]]
               /\ inbox' = [d \in Conns |->
                              IF d = c
                              THEN Append(inbox[d], SessionMsg("session-joined", sid, NoUser, session))
                              ELSE IF sid \in rooms[d]
                              THEN Append(inbox[d], SessionMsg("user-joined", sid, userId, session))
                              ELSE inbox[d]]
    /\ UNCHANGED <<cache, tasks, done, now, client, connectedUsers, open>>

NextSimple == SimpleCreate \/ SimpleRestJoin \/ SimpleSocketJoin

SpecSimple == Init /\ [][NextSimple]_vars

\* C33: in the in-memory server the REST join and the join-session message
\* produce the same status and the same participants from every stored
\* session and for every participant id.
C33_JoinPathsAgree ==
  \A sid \in SessionIds, userId \in Users :
    db[sid].exists
    => /\ RestJoin(db[sid], userId).status = SocketJoin(db[sid], userId).status
       /\ RestJoin(db[sid], userId).participants = SocketJoin(db[sid], userId).participants

\* C34: the lastUpdated of the stored VideoState of a session never
\* decreases: every write of a VideoState over a stored one stores a
\* lastUpdated greater than or equal to the one it replaces.
C34_LastUpdatedMonotonic ==
  [][\A s \in SessionIds :
       (db[s].videoState.present /\ db'[s].videoState.present)
       => db'[s].videoState.lastUpdated >= db[s].videoState.lastUpdated]_vars

(***************************************************************************)
(* SpecPresence: one participant with two connections.  The initial state  *)
(* is the one reached after A created s1 over REST and joined it from two  *)
(* sockets, c1 and c2: s1 is WAITING with participant A, both sockets are  *)
(* in its room and tracked, the cache entry has expired.  c3 is the        *)
(* browser of B, connected outside the room.                               *)
(***************************************************************************)
InitPresence ==
  /\ db = [s \in SessionIds |-> IF s = "s1" THEN NewRow("A", "WAITING", <<"A">>) ELSE NoRow]
  /\ cache = [s \in SessionIds |-> NoRow]
  /\ tasks = [t \in TaskIds |-> IdleTask]
  /\ done = {DoneRecord([IdleTask EXCEPT !.op = "join", !.sid = "s1", !.uid = "A",
                                         !.res = "ok", !.conn = c,
                                         !.handler = "join-session"]) : c \in {"c1", "c2"}}
  /\ nOps = 0
  /\ now = 1
  /\ socketData = [c \in Conns |->
                     IF c \in {"c1", "c2"} THEN [sessionId |-> "s1", userId |-> "A"]
                     ELSE NoSocketData]
  /\ rooms = [c \in Conns |-> IF c \in {"c1", "c2"} THEN {"s1"} ELSE {}]
  /\ inbox = [c \in Conns |-> <<>>]
  /\ client = [c \in Conns |-> NoView]
  /\ connectedUsers = [s \in SessionIds |-> IF s = "s1" THEN {"c1", "c2"} ELSE {}]
  /\ open = Conns

\* join-session from c3 as B
PresenceJoinEvent ==
  \E t \in TaskIds : nOps < MaxPresenceOps /\ OnJoinSession(t, "c3", "s1", "B")

\* leave-session without a payload from a socket of A
PresenceLeaveEvent ==
  \E t \in TaskIds, c \in {"c1", "c2"} :
    nOps < MaxPresenceOps /\ OnLeaveSession(t, c, FALSE, NoSocketData)

\* a socket of A disconnects
PresenceDisconnectEvent ==
  \E t \in TaskIds, c \in {"c1", "c2"} : nOps < MaxPresenceOps /\ OnDisconnect(t, c)

NextPresence ==
  \/ PresenceJoinEvent \/ PresenceLeaveEvent \/ PresenceDisconnectEvent
  \/ StepFbGet \/ StepFbDb \/ StepFbSet \/ StepUpd \/ StepUpdC
  \/ StepReturn

SpecPresence == InitPresence /\ [][NextPresence]_vars

\* SpecPresenceFail: the same sockets over a store whose statements may fail
NextPresenceFail == NextPresence \/ StepDbFail

SpecPresenceFail == InitPresence /\ [][NextPresenceFail]_vars

\* C35: presence implies membership: when no handler is in progress, every
\* open connection that is in room s and registered for s as participant p
\* has p among the participants of s.
C35_PresenceImpliesMembership ==
  Quiet
  => \A c \in open, s \in SessionIds :
       (s \in rooms[c] /\ socketData[c].sessionId = s)
       => socketData[c].userId \in SeqToSet(db[s].participants)

\* an open connection is in room s and registered for s as participant p
LiveFor(s, p) ==
  \E c \in open : s \in rooms[c] /\ socketData[c] = [sessionId |-> s, userId |-> p]

\* C36: when a connection disconnected while its join-session was being
\* processed (it had joined nothing and left nothing when it disconnected,
\* and its join-session succeeded), then once no handler is in progress the
\* participant, when not the creator of the session (who is a participant
\* from its creation), is not among the participants of the session unless
\* an open connection is registered for them there.
C36_DisconnectDuringJoin ==
  Quiet
  => \A d, e \in done :
       (/\ d.handler = "join-session" /\ d.res = "ok"
        /\ db[d.sid].userId # d.uid
        /\ e.handler = "disconnect" /\ e.conn = d.conn /\ e.joined = {}
        /\ ~\E l \in done : l.handler = "leave-session" /\ l.conn = d.conn)
       => \/ d.uid \notin SeqToSet(db[d.sid].participants)
          \/ LiveFor(d.sid, d.uid)

\* C37: a VideoState is written only to a session whose status is ACTIVE at
\* the moment of the write.
C37_WriteOnlyWhenActive ==
  [][\A s \in SessionIds :
       (db'[s].videoState # db[s].videoState /\ db'[s].videoState.present)
       => db[s].status = "ACTIVE"]_vars

\* C38: failed lifecycle operations are atomic: when the only call made so
\* far is a joinSession or leaveSession that returned a failure, the stored
\* participants and status of every session are what they were before the
\* call (those of the initial state of SpecRoom).
C38_FailedCallsAtomic ==
  (/\ nOps = 1 /\ Quiet
   /\ \E d \in done : d.op \in {"join", "leave"} /\ d.res # "ok")
  => /\ db["s1"].participants = RoomRow(NoState).participants
     /\ db["s1"].status = RoomRow(NoState).status
     /\ ~db["s2"].exists

\* C39: a leave-session or video-url-update for a session whose room the
\* sending connection is not in, and a leave-session for a participant
\* other than the one the connection is registered as, changes the
\* participants, status and videoUrl of no session.
C39_OnlyOwnSession ==
  [][\A t \in TaskIds :
       (/\ tasks[t].handler \in {"leave-session", "video-url-update"}
        /\ tasks'[t] # tasks[t]
        /\ \/ tasks[t].sid \notin rooms[tasks[t].conn]
           \/ /\ tasks[t].handler = "leave-session"
              /\ socketData[tasks[t].conn].userId # tasks[t].uid)
       => \A s \in SessionIds : Snapshot(db'[s]) = Snapshot(db[s])]_vars

\* C40: the connection index agrees with room membership: when no handler
\* is in progress, a connection is tracked under session s exactly when it
\* is open and in room s; in particular a connection that has disconnected
\* is tracked under no session.
C40_IndexConsistent ==
  Quiet
  => \A s \in SessionIds, c \in Conns :
       c \in connectedUsers[s] <=> (c \in open /\ s \in rooms[c])

====
